---- MODULE Spec2Model ----
(***************************************************************************)
(* Model of the worldmonitor repository: the desktop sidecar's file-      *)
(* convention router and cloud-fallback dispatcher (local-api-server.mjs), *)
(* the YouTube embed and country-intel serverless handlers, and, of the    *)
(* happy variant, the GoodThingsDigestPanel summarisation batches, the     *)
(* PositiveNewsFeedPanel filter, shareHappyCard, TvModeController, the     *)
(* humanity counters with the CountersPanel animation loop, and            *)
(* RenewableEnergyPanel. Each component has its own specification; the     *)
(* variables of the others stay at their initial values.                   *)
(*                                                                         *)
(* Strings are sequences of one-character strings, so that startsWith,     *)
(* endsWith, split and replace are computed as the code computes them.     *)
(***************************************************************************)
EXTENDS Integers, Sequences, FiniteSets, TLC

VARIABLES
    mRouteSegs,  \* matchRoute probe: segments of the route path under test
    mSegs,       \* matchRoute probe: segments of <p> in the request /api/<p>
    mPathname,   \* matchRoute probe: the request pathname, <<>> before a call
    mApiPath,    \* matchRoute probe: apiPath computed by pickModule
    mResult      \* matchRoute probe: what matchRoute returned

VARIABLES
    apiFiles,    \* the files under the api directory, in the order walk() visits them
    routes,      \* the route table built at server creation
    pSegs,       \* pickModule probe: segments of <p> in the request /api/<p>
    pPathname,   \* pickModule probe: the request pathname, <<>> before a call
    picked       \* pickModule probe: the module path returned, <<>> for null

VARIABLES
    disk,        \* the module paths that exist on disk
    moduleCache, \* importHandler's cache: module path -> kind of its default export
    dispatch     \* the request being dispatched: position, inputs, what was observed, response

VARIABLES
    embedReq,    \* /api/youtube/embed: the query parameters of the last request
    embedResp    \* /api/youtube/embed: the response to it

VARIABLES
    intelEnv,    \* country-intel: process.env (GROQ_API_KEY set, Upstash URL and token set)
    redisState,  \* country-intel: the module's redis client: "unset", "client" or "failed"
    redisStore,  \* country-intel: the Redis entries, a set of [key, value]
    intel        \* country-intel: the request being handled

VARIABLES
    summaryAbort,   \* GoodThingsDigestPanel: id of the current AbortController, 0 for null
    abortedSignals, \* GoodThingsDigestPanel: the controllers whose signal is aborted
    cardElements,   \* GoodThingsDigestPanel: the cards of the panel
    content,        \* GoodThingsDigestPanel: what the panel content shows
    tasks,          \* GoodThingsDigestPanel: the summarisation callbacks awaiting generateSummary
    callCount,      \* GoodThingsDigestPanel: number of setStories calls so far
    stories         \* GoodThingsDigestPanel: the items of the latest setStories call

VARIABLES
    activeFilter,   \* PositiveNewsFeedPanel: the selected filter
    allItems,       \* PositiveNewsFeedPanel: the latest list of items
    filteredItems,  \* PositiveNewsFeedPanel: the items behind the rendered cards
    feedContent,    \* PositiveNewsFeedPanel: the rendered cards, or the empty-state message
    activeButtons,  \* PositiveNewsFeedPanel: the filter buttons carrying the class 'active'
    lastClicked,    \* PositiveNewsFeedPanel: the filter button clicked last
    feedDestroyed   \* PositiveNewsFeedPanel: destroy() removed the click handlers

VARIABLES
    shareNav,   \* shareHappyCard: what navigator offers
    sharePc,    \* shareHappyCard: position of the call
    shareLog,   \* shareHappyCard: the mechanisms attempted so far, with their outcome
    shareError  \* shareHappyCard: what the call rejected with, "" if it did not

VARIABLES
    intervalMs,  \* TvModeController: the cycling interval
    intervalId,  \* TvModeController: the running setInterval timer and its delay
    tvMode,      \* TvModeController: document.documentElement.dataset.tvMode is set
    tvStorage,   \* TvModeController: the localStorage item 'tv-mode-interval'
    tvOption,    \* TvModeController: opts.intervalMs given to the constructor
    tvLast,      \* TvModeController: the last construction or setIntervalMs call
    tvFinite     \* TvModeController: the option and every argument so far were finite

VARIABLES
    clock,  \* humanity-counters: the current instant, [day, ms]
    reads   \* humanity-counters: the reads of getCounterValue at this instant

VARIABLES
    animFrameId,    \* CountersPanel: the id of the requested frame, 0 for null
    rafPending,     \* CountersPanel: the requestAnimationFrame callbacks not yet run or cancelled
    rafRequests,    \* CountersPanel: how many frames were requested so far
    valueElements,  \* CountersPanel: "built" while the value elements are referenced
    frameNo,        \* CountersPanel: the frames the browser has rendered
    shownFrame,     \* CountersPanel: the frame at which the values were last written
    lastCall        \* CountersPanel: the last operation and what it requested

VARIABLES
    renewContent,  \* RenewableEnergyPanel: the children of the panel content
    renewData,     \* RenewableEnergyPanel: what the last setData rendered
    renewLast      \* RenewableEnergyPanel: the last call and its series

matchVars == <<mRouteSegs, mSegs, mPathname, mApiPath, mResult>>
tableVars == <<apiFiles, routes>>
pickVars == <<pSegs, pPathname, picked>>

serverVars == <<disk, moduleCache, dispatch>>
embedVars == <<embedReq, embedResp>>
intelVars == <<intelEnv, redisState, redisStore, intel>>
digestVars == <<summaryAbort, abortedSignals, cardElements, content, tasks, callCount,
                stories>>

\* The variables of the panels and services outside the API sidecar.
feedVars == <<activeFilter, allItems, filteredItems, feedContent, activeButtons, lastClicked, feedDestroyed>>
shareVars == <<shareNav, sharePc, shareLog, shareError>>
tvVars == <<intervalMs, intervalId, tvMode, tvStorage, tvOption, tvLast, tvFinite>>
counterVars == <<clock, reads>>
tickVars == <<animFrameId, rafPending, rafRequests, valueElements, frameNo, shownFrame, lastCall>>
renewVars == <<renewContent, renewData, renewLast>>
panelVars == <<feedVars, shareVars, tvVars, counterVars, tickVars, renewVars>>
apiVars == <<matchVars, tableVars, pickVars, serverVars, embedVars, intelVars, digestVars>>

\* what each component's actions leave alone
exceptMatch == <<tableVars, pickVars, serverVars, embedVars, intelVars, digestVars, panelVars>>
exceptPick == <<matchVars, tableVars, serverVars, embedVars, intelVars, digestVars, panelVars>>
exceptServer == <<matchVars, tableVars, pickVars, embedVars, intelVars, digestVars, panelVars>>
exceptEmbed == <<matchVars, tableVars, pickVars, serverVars, intelVars, digestVars, panelVars>>
exceptIntel == <<matchVars, tableVars, pickVars, serverVars, embedVars, digestVars, panelVars>>
exceptDigest == <<matchVars, tableVars, pickVars, serverVars, embedVars, intelVars, panelVars>>
exceptFeed == <<apiVars, shareVars, tvVars, counterVars, tickVars, renewVars>>
exceptShare == <<apiVars, feedVars, tvVars, counterVars, tickVars, renewVars>>
exceptTv == <<apiVars, feedVars, shareVars, counterVars, tickVars, renewVars>>
exceptCounter == <<apiVars, feedVars, shareVars, tvVars, tickVars, renewVars>>
exceptTick == <<apiVars, feedVars, shareVars, tvVars, counterVars, renewVars>>
exceptRenew == <<apiVars, feedVars, shareVars, tvVars, counterVars, tickVars>>

vars == <<apiVars, panelVars>>

(***************************************************************************)
(* Bounds                                                                  *)
(***************************************************************************)
MaxRouteLen == 2
MaxPathLen == 3
MaxFiles == 2
MaxIdLen == 12
MaxCalls == 2
MaxItems == 3
MaxReads == 3
MaxFrames == 4
MaxRequests == 6

(***************************************************************************)
(* Values of the state before anything has happened                        *)
(***************************************************************************)
\* The parts of the state a specification does not use stay at these values.
MatchIdle ==
    /\ mRouteSegs = <<>>
    /\ mSegs = <<>>
    /\ mPathname = <<>>
    /\ mApiPath = <<>>
    /\ mResult = FALSE

TableIdle == apiFiles = <<>> /\ routes = <<>>

PickIdle == pSegs = <<>> /\ pPathname = <<>> /\ picked = <<>>

NoResponse == [from |-> "none", status |-> 0, error |-> ""]
NoOutcome == [type |-> "none", status |-> 0]

IdleDispatch ==
    [pc |-> "idle", segs |-> <<>>, pathname |-> <<>>, method |-> "GET",
     modulePath |-> <<>>, onDisk |-> FALSE, exportKind |-> "none", reason |-> "none",
     local |-> NoOutcome, cloud |-> NoOutcome, cloudCalls |-> 0,
     resp |-> NoResponse]

Absent == [present |-> FALSE, value |-> <<>>]
Param(v) == [present |-> TRUE, value |-> v]

NoEmbedResponse == [status |-> 0, contentType |-> "", src |-> <<>>, autoplay |-> <<>>, mute |-> <<>>]

EmbedIdle ==
    /\ embedReq = [handled |-> FALSE, videoId |-> Absent, autoplay |-> Absent, mute |-> Absent]
    /\ embedResp = NoEmbedResponse

NoBody == [kind |-> "none", country |-> "", code |-> <<>>,
           context |-> [present |-> FALSE, truthy |-> FALSE, json |-> <<>>]]
NoIntelResponse ==
    [status |-> 0, error |-> "", fallback |-> FALSE, cached |-> FALSE,
     brief |-> "", country |-> "", code |-> <<>>]
NoEntry == [brief |-> "", country |-> "", code |-> <<>>, groqStatus |-> 0]

IdleIntel ==
    [pc |-> "idle", method |-> "GET", body |-> NoBody, cacheKey |-> <<>>,
     useRedis |-> FALSE, found |-> NoEntry, result |-> NoEntry,
     cacheReads |-> 0, groqCalls |-> 0, resp |-> NoIntelResponse]

IntelIdle ==
    /\ intelEnv = [apiKey |-> FALSE, redis |-> FALSE]
    /\ redisState = "unset"
    /\ redisStore = {}
    /\ intel = IdleIntel

DigestIdle ==
    /\ summaryAbort = 0
    /\ abortedSignals = {}
    /\ cardElements = <<>>
    /\ content = "loading"
    /\ tasks = {}
    /\ callCount = 0
    /\ stories = <<>>

ServerIdle == disk = {} /\ moduleCache = {} /\ dispatch = IdleDispatch

ShareIdle ==
    /\ shareNav = [share |-> FALSE, canShare |-> "absent", clipboard |-> FALSE]
    /\ sharePc = "idle"
    /\ shareLog = <<>>
    /\ shareError = ""

TvIdle ==
    /\ intervalMs = [kind |-> "finite", v |-> 60000]
    /\ intervalId = [active |-> FALSE, delay |-> [kind |-> "nan", v |-> 0]]
    /\ tvMode = FALSE
    /\ tvStorage = [present |-> FALSE, value |-> <<>>]
    /\ tvOption = [present |-> FALSE, value |-> [kind |-> "nan", v |-> 0]]
    /\ tvLast = [op |-> "construct", arg |-> [kind |-> "nan", v |-> 0],
                 stored |-> [present |-> FALSE, value |-> <<>>]]
    /\ tvFinite = TRUE

CounterIdle ==
    /\ clock = [day |-> 0, ms |-> 0]
    /\ reads = <<>>

TickIdle ==
    /\ animFrameId = 0
    /\ rafPending = {}
    /\ rafRequests = 0
    /\ valueElements = "none"
    /\ frameNo = 0
    /\ shownFrame = 0
    /\ lastCall = [op |-> "none", wasTicking |-> FALSE, requested |-> 0]

RenewIdle ==
    /\ renewContent = <<>>
    /\ renewData = <<>>
    /\ renewLast = [op |-> "none", series |-> [present |-> FALSE, list |-> <<>>]]

FeedIdle ==
    /\ activeFilter = "all"
    /\ allItems = <<>>
    /\ filteredItems = <<>>
    /\ feedContent = [kind |-> "initial", cards |-> <<>>]
    /\ activeButtons = {"all"}
    /\ lastClicked = "all"
    /\ feedDestroyed = FALSE

\* Everything outside one component at rest.

ApiIdle ==
    /\ MatchIdle /\ TableIdle /\ PickIdle /\ ServerIdle
    /\ EmbedIdle /\ IntelIdle /\ DigestIdle

PanelsIdle ==
    /\ FeedIdle
    /\ ShareIdle
    /\ TvIdle
    /\ CounterIdle
    /\ TickIdle
    /\ RenewIdle

IdleExceptFeed ==
    /\ ApiIdle
    /\ ShareIdle
    /\ TvIdle
    /\ CounterIdle
    /\ TickIdle
    /\ RenewIdle

IdleExceptShare ==
    /\ ApiIdle
    /\ FeedIdle
    /\ TvIdle
    /\ CounterIdle
    /\ TickIdle
    /\ RenewIdle

IdleExceptTv ==
    /\ ApiIdle
    /\ FeedIdle
    /\ ShareIdle
    /\ CounterIdle
    /\ TickIdle
    /\ RenewIdle

IdleExceptCounter ==
    /\ ApiIdle
    /\ FeedIdle
    /\ ShareIdle
    /\ TvIdle
    /\ TickIdle
    /\ RenewIdle

IdleExceptTick ==
    /\ ApiIdle
    /\ FeedIdle
    /\ ShareIdle
    /\ TvIdle
    /\ CounterIdle
    /\ RenewIdle

IdleExceptRenew ==
    /\ ApiIdle
    /\ FeedIdle
    /\ ShareIdle
    /\ TvIdle
    /\ CounterIdle
    /\ TickIdle

(***************************************************************************)
(* String helpers (JavaScript String methods on character sequences)       *)
(***************************************************************************)
StartsWith(s, p) == Len(s) >= Len(p) /\ SubSeq(s, 1, Len(p)) = p

EndsWith(s, p) == Len(s) >= Len(p) /\ SubSeq(s, Len(s) - Len(p) + 1, Len(s)) = p

\* s.slice(n) for 0 <= n
SliceFrom(s, n) == IF n >= Len(s) THEN <<>> ELSE SubSeq(s, n + 1, Len(s))

\* s.slice(0, n) for 0 <= n
SliceTo(s, n) == IF Len(s) <= n THEN s ELSE SubSeq(s, 1, n)

RECURSIVE SplitAcc(_, _, _)
SplitAcc(s, sep, cur) ==
    IF s = <<>> THEN <<cur>>
    ELSE IF Head(s) = sep THEN <<cur>> \o SplitAcc(Tail(s), sep, <<>>)
    ELSE SplitAcc(Tail(s), sep, Append(cur, Head(s)))

\* s.split(sep) for a one-character separator
Split(s, sep) == SplitAcc(s, sep, <<>>)

\* parts.filter(Boolean): drops the empty strings
FilterNonEmpty(parts) == SelectSeq(parts, LAMBDA p : p # <<>>)

RECURSIVE Join(_, _)
Join(parts, sep) ==
    IF parts = <<>> THEN <<>>
    ELSE IF Len(parts) = 1 THEN parts[1]
    ELSE parts[1] \o <<sep>> \o Join(Tail(parts), sep)

(***************************************************************************)
(* String literals                                                         *)
(***************************************************************************)
SLASH == "/"
ApiPrefix == <<"/", "a", "p", "i">>
OptCatchOpen == <<"[", "[", ".", ".", ".">>
OptCatchClose == <<"]", "]">>
CatchOpen == <<"[", ".", ".", ".">>
BracketOpen == <<"[">>
BracketClose == <<"]">>

DotJs == <<".", "j", "s">>
SlashIndex == <<"/", "i", "n", "d", "e", "x">>
Underscore == <<"_">>
ApiRoot == <<"/", "r">>

SegA == <<"a">>
SegB == <<"b">>
SegC == <<"c">>
SegApi == <<"a", "p", "i">>
SegDyn == <<"[", "x", "]">>
SegCatch == <<"[", ".", ".", ".", "x", "]">>
SegOptCatch == <<"[", "[", ".", ".", ".", "x", "]", "]">>

(***************************************************************************)
(* local-api-server.mjs: route helpers                                     *)
(***************************************************************************)
isBracketSegment(segment) ==
    StartsWith(segment, BracketOpen) /\ EndsWith(segment, BracketClose)

isOptionalCatchAll(part) ==
    StartsWith(part, OptCatchOpen) /\ EndsWith(part, OptCatchClose)

isCatchAll(part) ==
    StartsWith(part, CatchOpen) /\ EndsWith(part, BracketClose)

splitRoutePath(routePath) == FilterNonEmpty(Split(routePath, SLASH))

partScore(part) ==
    IF isOptionalCatchAll(part) THEN 0
    ELSE IF isCatchAll(part) THEN 1
    ELSE IF isBracketSegment(part) THEN 2
    ELSE 10

RECURSIVE SumScores(_)
SumScores(parts) ==
    IF parts = <<>> THEN 0 ELSE partScore(Head(parts)) + SumScores(Tail(parts))

routePriority(routePath) == SumScores(splitRoutePath(routePath))

\* pathname.replace(/^\/api/, '')
stripApiPrefix(pathname) ==
    IF StartsWith(pathname, ApiPrefix) THEN SliceFrom(pathname, 4) ELSE pathname

\* The while loop of matchRoute with 0-based i, j; yields <<verdict, i, j>>
\* where verdict is "true"/"false" for a return inside the loop and "exit"
\* when the loop condition fails.
RECURSIVE matchLoop(_, _, _, _)
matchLoop(routeParts, pathParts, i, j) ==
    IF ~(i < Len(routeParts) /\ j < Len(pathParts)) THEN <<"exit", i, j>>
    ELSE LET routePart == routeParts[i + 1]
             pathPart == pathParts[j + 1]
         IN IF isOptionalCatchAll(routePart) THEN <<"true", i, j>>
            ELSE IF isCatchAll(routePart) THEN <<"true", i, j>>
            ELSE IF isBracketSegment(routePart)
                 THEN matchLoop(routeParts, pathParts, i + 1, j + 1)
            ELSE IF routePart # pathPart THEN <<"false", i, j>>
            ELSE matchLoop(routeParts, pathParts, i + 1, j + 1)

\* Faulty variant of matchAfterLoop: a path that is a proper prefix or extension of
\* the route is accepted (the j === pathParts.length test is dropped).
matchAfterLoopNoLength(routeParts, pathParts, i, j) ==
    IF i = Len(routeParts) THEN TRUE
    ELSE IF i = Len(routeParts) - 1
         THEN LET tail == routeParts[i + 1]
              IN IF isOptionalCatchAll(tail) THEN TRUE
                 ELSE IF isCatchAll(tail) THEN j < Len(pathParts)
                 ELSE FALSE
    ELSE FALSE

\* Faulty variant of matchAfterLoop: a required catch-all tail is accepted with no
\* path segment left, like an optional one.
matchAfterLoopNoArity(routeParts, pathParts, i, j) ==
    IF i = Len(routeParts) /\ j = Len(pathParts) THEN TRUE
    ELSE IF i = Len(routeParts) - 1
         THEN LET tail == routeParts[i + 1]
              IN IF isOptionalCatchAll(tail) THEN TRUE
                 ELSE IF isCatchAll(tail) THEN TRUE
                 ELSE FALSE
    ELSE FALSE

\* The code of matchRoute after the while loop
matchAfterLoop(routeParts, pathParts, i, j) ==
    IF i = Len(routeParts) /\ j = Len(pathParts) THEN TRUE
    ELSE IF i = Len(routeParts) - 1
         THEN LET tail == routeParts[i + 1]
              IN IF isOptionalCatchAll(tail) THEN TRUE
                 ELSE IF isCatchAll(tail) THEN j < Len(pathParts)
                 ELSE FALSE
    ELSE FALSE

matchRoute(routePath, pathname) ==
    LET routeParts == splitRoutePath(routePath)
        pathParts == splitRoutePath(stripApiPrefix(pathname))
        r == matchLoop(routeParts, pathParts, 0, 0)
    IN IF r[1] = "true" THEN TRUE
       ELSE IF r[1] = "false" THEN FALSE
       ELSE matchAfterLoop(routeParts, pathParts, r[2], r[3])

\* const apiPath = pathname.startsWith('/api') ? pathname.slice(4) || '/' : pathname
apiPathOf(pathname) ==
    IF StartsWith(pathname, ApiPrefix)
    THEN (IF SliceFrom(pathname, 4) = <<>> THEN <<SLASH>> ELSE SliceFrom(pathname, 4))
    ELSE pathname

(***************************************************************************)
(* Inputs of the matchRoute probe                                          *)
(***************************************************************************)
RouteSegs == {SegA, SegB, SegDyn, SegCatch, SegOptCatch}
PathSegs == {SegA, SegB, SegApi}

SeqsUpTo(S, n) == UNION {[1..k -> S] : k \in 0..n}

RouteSegLists == SeqsUpTo(RouteSegs, MaxRouteLen) \ {<<>>}
PathSegLists == SeqsUpTo(PathSegs, MaxPathLen)

\* the request pathname /api/<p>
RequestPathname(segs) == ApiPrefix \o <<SLASH>> \o Join(segs, SLASH)

MatchInit ==
    /\ PanelsIdle
    /\ DigestIdle
    /\ IntelIdle
    /\ TableIdle
    /\ PickIdle
    /\ ServerIdle
    /\ EmbedIdle
    /\ mRouteSegs \in RouteSegLists
    /\ mSegs \in PathSegLists
    /\ mPathname = <<>>
    /\ mApiPath = <<>>
    /\ mResult = FALSE

\* One request pathname is run through pickModule's apiPath computation and
\* matchRoute against the route under test.
MatchRouteCall ==
    /\ mPathname' = RequestPathname(mSegs)
    /\ mApiPath' = apiPathOf(RequestPathname(mSegs))
    /\ mResult' = matchRoute(Join(mRouteSegs, SLASH), apiPathOf(RequestPathname(mSegs)))
    /\ UNCHANGED <<mRouteSegs, mSegs, exceptMatch>>

SpecMatch == MatchInit /\ [][MatchRouteCall]_vars

(***************************************************************************)
(* Claims about matchRoute                                                 *)
(***************************************************************************)
StaticSegs == {SegA, SegB}
DynSegs == {SegDyn}

MatchCalled == mPathname # <<>>

BeginsWithApi(segs) == segs # <<>> /\ StartsWith(Head(segs), SegApi)

\* The path segments left once matchRoute has removed a leading /api
EffectiveSegs(segs) ==
    IF ~BeginsWithApi(segs) THEN segs
    ELSE IF Head(segs) = SegApi THEN Tail(segs)
    ELSE <<SliceFrom(Head(segs), 3)>> \o Tail(segs)

SegAccepts(routeSeg, pathSeg) == routeSeg \in DynSegs \/ routeSeg = pathSeg

\* the first n route segments are static or [x] and accept the first n path segments
PrefixAccepts(routeSegs, pathSegs, n) ==
    /\ Len(pathSegs) >= n
    /\ \A k \in 1..n : routeSegs[k] \in StaticSegs \cup DynSegs /\ SegAccepts(routeSegs[k], pathSegs[k])

PlainPrefix(routeSegs) ==
    \A k \in 1..(Len(routeSegs) - 1) : routeSegs[k] \in StaticSegs \cup DynSegs

C6_StaticBracketMatch ==
    (/\ MatchCalled
     /\ \A k \in 1..Len(mRouteSegs) : mRouteSegs[k] \in StaticSegs \cup DynSegs
     /\ ~BeginsWithApi(mSegs)) =>
        (mResult <=>
            /\ Len(mRouteSegs) = Len(mSegs)
            /\ \A k \in 1..Len(mRouteSegs) :
                  mRouteSegs[k] \in StaticSegs => mRouteSegs[k] = mSegs[k])

\* C6 witness: a bracket segment accepted a path segment next to a static one.
C6_Witness ==
    /\ MatchCalled
    /\ mRouteSegs = <<SegA, SegDyn>>
    /\ mSegs = <<SegA, SegB>>
    /\ mResult

(***************************************************************************)
(* local-api-server.mjs: buildRouteTable and pickModule                    *)
(***************************************************************************)
\* A file is the sequence of its path segments below the api directory.
FileName(file) == file[Len(file)]

\* path.join(dir, entry.name) accumulated from the root
absoluteOf(file) == ApiRoot \o <<SLASH>> \o Join(file, SLASH)

\* path.relative(root, absolute)
relativeOf(absolute) == SliceFrom(absolute, Len(ApiRoot) + 1)

\* relative.replace(/\.js$/, '').replace(/\/index$/, '')
routePathOf(relative) ==
    LET noJs == IF EndsWith(relative, DotJs)
                THEN SubSeq(relative, 1, Len(relative) - 3) ELSE relative
    IN IF EndsWith(noJs, SlashIndex) THEN SubSeq(noJs, 1, Len(noJs) - 6) ELSE noJs

\* the entries walk() pushes: .js files whose name does not start with '_'
isRouteFile(file) ==
    EndsWith(FileName(file), DotJs) /\ ~StartsWith(FileName(file), Underscore)

routeEntry(file) ==
    [routePath |-> routePathOf(relativeOf(absoluteOf(file))),
     modulePath |-> absoluteOf(file)]

\* Array.prototype.sort is stable: an entry goes after every entry whose
\* comparator result does not put it later.
RECURSIVE insertByPriority(_, _)
insertByPriority(sorted, e) ==
    IF sorted = <<>> THEN <<e>>
    ELSE IF routePriority(e.routePath) - routePriority(Head(sorted).routePath) > 0
         THEN <<e>> \o sorted
         ELSE <<Head(sorted)>> \o insertByPriority(Tail(sorted), e)

RECURSIVE sortRoutes(_, _)
sortRoutes(sorted, rest) ==
    IF rest = <<>> THEN sorted
    ELSE sortRoutes(insertByPriority(sorted, Head(rest)), Tail(rest))

RECURSIVE collectRoutes(_)
collectRoutes(files) ==
    IF files = <<>> THEN <<>>
    ELSE IF isRouteFile(Head(files))
         THEN <<routeEntry(Head(files))>> \o collectRoutes(Tail(files))
         ELSE collectRoutes(Tail(files))

buildRouteTable(files) == sortRoutes(<<>>, collectRoutes(files))

RECURSIVE pickFrom(_, _)
pickFrom(apiPath, table) ==
    IF table = <<>> THEN <<>>
    ELSE IF matchRoute(Head(table).routePath, apiPath) THEN Head(table).modulePath
    ELSE pickFrom(apiPath, Tail(table))

pickModule(pathname, table) == pickFrom(apiPathOf(pathname), table)

(***************************************************************************)
(* The api directory                                                       *)
(***************************************************************************)
JsFile(name) == name \o DotJs

CandidateFiles ==
    { <<JsFile(SegA)>>,
      <<SegA, JsFile(<<"i", "n", "d", "e", "x">>)>>,
      <<SegA, JsFile(SegB)>>,
      <<JsFile(SegDyn)>>,
      <<SegA, JsFile(SegDyn)>>,
      <<SegA, JsFile(SegOptCatch)>>,
      <<JsFile(SegCatch)>>,
      <<SegCatch, SegB, JsFile(SegC)>>,
      <<JsFile(<<"_", "u">>)>>,
      <<SegA, <<"n", ".", "m", "d">>>> }

IsPrefixOf(d, file) == Len(d) < Len(file) /\ SubSeq(file, 1, Len(d)) = d

\* walk() lists a directory completely before it returns to the parent, in
\* whatever order readdir yields the entries: the files below any directory
\* are contiguous in the listing.
IsWalkOrder(files) ==
    \A i \in 1..Len(files) : \A k \in 1..(Len(files[i]) - 1) :
        LET d == SubSeq(files[i], 1, k)
        IN \A j1 \in 1..Len(files) : \A j2 \in j1..Len(files) :
              (IsPrefixOf(d, files[j1]) /\ IsPrefixOf(d, files[j2])) =>
                  \A j \in j1..j2 : IsPrefixOf(d, files[j])

Listings(candidates, n) ==
    { f \in SeqsUpTo(candidates, n) :
        (\A i, j \in 1..Len(f) : i # j => f[i] # f[j]) /\ IsWalkOrder(f) }

PickInit ==
    /\ PanelsIdle
    /\ DigestIdle
    /\ IntelIdle
    /\ MatchIdle
    /\ ServerIdle
    /\ EmbedIdle
    /\ apiFiles \in Listings(CandidateFiles, MaxFiles)
    /\ routes = buildRouteTable(apiFiles)
    /\ pSegs \in PathSegLists
    /\ pPathname = <<>>
    /\ picked = <<>>

PickModuleCall ==
    /\ pPathname' = RequestPathname(pSegs)
    /\ picked' = pickModule(RequestPathname(pSegs), routes)
    /\ UNCHANGED <<pSegs, exceptPick>>

SpecPick == PickInit /\ [][PickModuleCall]_vars

(***************************************************************************)
(* Claims about route priority                                             *)
(***************************************************************************)
PickCalled == pPathname # <<>>

StaticNames == {SegA, SegB, SegC, SegApi, <<"i", "n", "d", "e", "x">>}

IsStaticRoute(routePath) ==
    \A k \in 1..Len(splitRoutePath(routePath)) : splitRoutePath(routePath)[k] \in StaticNames

StaticRouteMatches(entry, segs) ==
    IsStaticRoute(entry.routePath) /\ splitRoutePath(entry.routePath) = EffectiveSegs(segs)

\* C4: if a route made only of static segments matches the request path,
\* pickModule returns the module of such a route, never the module of a
\* route with a [x], [...x] or [[...x]] segment.
C4_StaticRouteWins ==
    (PickCalled /\ \E k \in 1..Len(routes) : StaticRouteMatches(routes[k], pSegs)) =>
        \E k \in 1..Len(routes) :
            StaticRouteMatches(routes[k], pSegs) /\ picked = routes[k].modulePath

(***************************************************************************)
(* local-api-server.mjs: dispatch and tryCloudFallback                     *)
(***************************************************************************)
SegServiceStatus == <<"s", "e", "r", "v", "i", "c", "e", "-", "s", "t", "a", "t", "u", "s">>
SegLocalStatus == <<"l", "o", "c", "a", "l", "-", "s", "t", "a", "t", "u", "s">>
ServiceStatusPath == ApiPrefix \o <<SLASH>> \o SegServiceStatus
LocalStatusPath == ApiPrefix \o <<SLASH>> \o SegLocalStatus

MissingError == "Local handler missing and cloud fallback unavailable"
InvalidModuleError == "Invalid handler module"
InvalidResponseError == "Handler returned invalid response"
FailedError == "Local handler failed and cloud fallback unavailable"

\* json(data, status)
json(error, status) == [from |-> "json", status |-> status, error |-> error]

\* Faulty variant of isOk: redirects count as success.
isOkBelow400(status) == status >= 200 /\ status <= 399

\* Faulty variant of isOk: only 200 counts as success.
isOkOnly200(status) == status = 200

\* Response.ok
isOk(status) == status >= 200 /\ status <= 299

\* ['GET', 'HEAD'].includes(req.method)
hasNoBody(method) == method \in {"GET", "HEAD"}

\* Faulty variant of handlerMissing: the existsSync test is dropped.
handlerMissingNoExists(modulePath, files) == modulePath = <<>>

\* !modulePath || !existsSync(modulePath)
handlerMissing(modulePath, files) == modulePath = <<>> \/ modulePath \notin files

\* moduleCache.get(cacheKey)
cachedKinds(mc, modulePath) == {e[2] : e \in {c \in mc : c[1] = modulePath}}

\* Faulty variant of responseWithoutCloud: the catch answers like the other
\* fallbacks inside the try, with a 500.
responseWithoutCloudCatch500(reason, local) ==
    CASE reason = "missing" -> json(MissingError, 502)
      [] reason = "invalid" -> json(InvalidModuleError, 500)
      [] reason = "nonresponse" -> json(InvalidResponseError, 500)
      [] reason = "status" -> [from |-> "local", status |-> local.status, error |-> ""]
      [] OTHER -> json(FailedError, 500)

\* What dispatch returns once tryCloudFallback has returned null, by the
\* place of the call: 'missing' (line 240), 'invalid' (248), 'nonresponse'
\* (263), 'status' (falls through to return response, 273), 'error' (277).
responseWithoutCloud(reason, local) ==
    CASE reason = "missing" -> json(MissingError, 502)
      [] reason = "invalid" -> json(InvalidModuleError, 500)
      [] reason = "nonresponse" -> json(InvalidResponseError, 500)
      [] reason = "status" -> [from |-> "local", status |-> local.status, error |-> ""]
      [] OTHER -> json(FailedError, 502)

\* Faulty variant of afterHandler: the instanceof Response test is dropped.
afterHandlerNoInstanceOf(outcome) ==
    IF outcome.type = "response" /\ ~isOk(outcome.status) THEN "status"
    ELSE "respond"

\* Where dispatch goes with what the handler returned (lines 259-273):
\* "respond" returns the local response, anything else names the fallback.
afterHandler(outcome) ==
    IF outcome.type # "response" THEN "nonresponse"
    ELSE IF ~isOk(outcome.status) THEN "status"
    ELSE "respond"

DispatchCandidates == { <<JsFile(SegA)>>, <<SegA, JsFile(SegDyn)>> }
DispatchSegLists ==
    { <<>>, <<SegA>>, <<SegB>>, <<SegA, SegB>>, <<SegB, SegA>>, <<SegA, SegB, SegA>>,
      <<SegServiceStatus>>, <<SegLocalStatus>> }
Methods == {"GET", "POST"}
LocalStatuses == {200, 299, 300, 404, 503}
CloudStatuses == {200, 404, 500}
HandlerOutcomes ==
    {[type |-> "response", status |-> st] : st \in LocalStatuses}
        \cup {[type |-> "value", status |-> 0]}
CloudOutcomes == {[type |-> "response", status |-> st] : st \in CloudStatuses}
ThrowOutcome == [type |-> "throw", status |-> 0]

ServerInit ==
    /\ PanelsIdle
    /\ DigestIdle
    /\ IntelIdle
    /\ MatchIdle
    /\ PickIdle
    /\ EmbedIdle
    /\ apiFiles \in Listings(DispatchCandidates, MaxFiles)
    /\ routes = buildRouteTable(apiFiles)
    /\ disk = {absoluteOf(apiFiles[i]) : i \in 1..Len(apiFiles)}
    /\ moduleCache = {}
    /\ dispatch = IdleDispatch

Quiet == dispatch.pc \in {"idle", "done"}

\* A handler file is removed from the api directory while the server runs.
RemoveModuleFile ==
    \E m \in disk :
        /\ disk' = disk \ {m}
        /\ UNCHANGED <<exceptServer, moduleCache, dispatch>>

\* dispatch, lines 222-241: the status endpoints, pickModule and existsSync.
DispatchStart ==
    /\ Quiet
    /\ \E segs \in DispatchSegLists, method \in Methods :
        LET pathname == RequestPathname(segs)
            modulePath == pickModule(pathname, routes)
            d == [IdleDispatch EXCEPT !.segs = segs, !.pathname = pathname,
                                      !.method = method]
        IN dispatch' =
            IF pathname = ServiceStatusPath
            THEN [d EXCEPT !.pc = "done",
                           !.resp = [from |-> "service-status", status |-> 200, error |-> ""]]
            ELSE IF pathname = LocalStatusPath
            THEN [d EXCEPT !.pc = "done",
                           !.resp = [from |-> "local-status", status |-> 200, error |-> ""]]
            ELSE IF handlerMissing(modulePath, disk)
            THEN [d EXCEPT !.pc = "fallback", !.reason = "missing",
                           !.modulePath = modulePath, !.onDisk = modulePath \in disk]
            ELSE [d EXCEPT !.pc = "import",
                           !.modulePath = modulePath, !.onDisk = modulePath \in disk]
    /\ UNCHANGED <<exceptServer, disk, moduleCache>>

\* importHandler and the typeof check, lines 244-249 and 158-166: a cached
\* module is reused; otherwise import() yields a module whose default export
\* is a function or not, or throws (always, when the file is gone).
DispatchImport ==
    /\ dispatch.pc = "import"
    /\ \E kind \in {"function", "other", "throw"} :
        /\ IF cachedKinds(moduleCache, dispatch.modulePath) # {}
           THEN kind \in cachedKinds(moduleCache, dispatch.modulePath)
           ELSE dispatch.modulePath \notin disk => kind = "throw"
        /\ moduleCache' =
              IF kind = "throw" THEN moduleCache
              ELSE moduleCache \cup {<<dispatch.modulePath, kind>>}
        /\ dispatch' =
              IF kind = "throw"
              THEN [dispatch EXCEPT !.pc = "fallback", !.reason = "error",
                                    !.exportKind = kind]
              ELSE IF kind # "function"
              THEN [dispatch EXCEPT !.pc = "fallback", !.reason = "invalid",
                                    !.exportKind = kind]
              ELSE [dispatch EXCEPT !.pc = "handler", !.exportKind = kind]
    /\ UNCHANGED <<exceptServer, disk>>

\* lines 251-273 and the catch at 274: the body is read for methods that
\* have one, the handler runs, and its result decides.
DispatchHandler ==
    /\ dispatch.pc = "handler"
    /\ \/ \* readBody throws, for a method that has a body
          /\ ~hasNoBody(dispatch.method)
          /\ dispatch' = [dispatch EXCEPT !.pc = "fallback", !.reason = "error"]
       \/ \* the handler throws
          dispatch' = [dispatch EXCEPT !.pc = "fallback", !.reason = "error",
                                       !.local = ThrowOutcome]
       \/ \E outcome \in HandlerOutcomes :
            dispatch' =
              IF afterHandler(outcome) = "respond"
              THEN [dispatch EXCEPT !.pc = "done", !.local = outcome,
                        !.resp = [from |-> "local", status |-> outcome.status, error |-> ""]]
              ELSE [dispatch EXCEPT !.pc = "fallback", !.local = outcome,
                        !.reason = afterHandler(outcome)]
    /\ UNCHANGED <<exceptServer, disk, moduleCache>>

\* tryCloudFallback, lines 209-219, and what dispatch does with its result.
DispatchFallback ==
    /\ dispatch.pc = "fallback"
    /\ \/ \E outcome \in CloudOutcomes :
            dispatch' = [dispatch EXCEPT !.pc = "done", !.cloud = outcome,
                            !.cloudCalls = @ + 1,
                            !.resp = [from |-> "cloud", status |-> outcome.status, error |-> ""]]
       \/ \* proxyToCloud throws: tryCloudFallback returns null
          dispatch' = [dispatch EXCEPT !.pc = "done", !.cloud = ThrowOutcome,
                            !.cloudCalls = @ + 1,
                            !.resp = responseWithoutCloud(dispatch.reason, dispatch.local)]
    /\ UNCHANGED <<exceptServer, disk, moduleCache>>

ServerNext ==
    \/ RemoveModuleFile
    \/ DispatchStart
    \/ DispatchImport
    \/ DispatchHandler
    \/ DispatchFallback

SpecServer == ServerInit /\ [][ServerNext]_vars

(***************************************************************************)
(* Claims about dispatch                                                   *)
(***************************************************************************)
Dispatched == dispatch.pc = "done"

IsStatusEndpoint(pathname) == pathname \in {ServiceStatusPath, LocalStatusPath}

NoRouteMatches(pathname) ==
    \A k \in 1..Len(routes) : ~matchRoute(routes[k].routePath, apiPathOf(pathname))

CloudResponded == dispatch.cloud.type = "response"
CloudThrew == dispatch.cloud.type = "throw"

ReturnsCloudResponse ==
    dispatch.resp = [from |-> "cloud", status |-> dispatch.cloud.status, error |-> ""]

\* C1: a request other than the two status endpoints whose path matches no
\* route, or whose matched module file is not on disk, is proxied to the
\* cloud: the cloud response is returned if the proxy call completes, and
\* the 502 'Local handler missing and cloud fallback unavailable' JSON error
\* if it throws.
C1_MissingHandlerFallsBack ==
    (/\ Dispatched
     /\ ~IsStatusEndpoint(dispatch.pathname)
     /\ (NoRouteMatches(dispatch.pathname) \/ (dispatch.modulePath # <<>> /\ ~dispatch.onDisk))) =>
        /\ dispatch.cloudCalls = 1
        /\ CloudResponded => ReturnsCloudResponse
        /\ CloudThrew =>
              dispatch.resp = [from |-> "json", status |-> 502, error |-> MissingError]

\* C1 witness: the matched module file was gone and the proxy call threw.
C1_Witness ==
    /\ Dispatched
    /\ dispatch.modulePath # <<>>
    /\ ~dispatch.onDisk
    /\ CloudThrew
    /\ dispatch.resp.status = 502

LocalNotOk ==
    /\ dispatch.local.type = "response"
    /\ ~(dispatch.local.status >= 200 /\ dispatch.local.status <= 299)

\* C2: when the local handler returns a Response with a status outside
\* 200-299, the cloud proxy is attempted and its response returned whatever
\* its status; only when the proxy call throws is the local non-ok response
\* returned, unchanged.
C2_NonOkPrefersCloud ==
    (Dispatched /\ LocalNotOk) =>
        /\ dispatch.cloudCalls = 1
        /\ CloudResponded => ReturnsCloudResponse
        /\ CloudThrew =>
              dispatch.resp = [from |-> "local", status |-> dispatch.local.status, error |-> ""]

\* C2 witness: a local 404 was replaced by a cloud 500.
C2_Witness ==
    /\ Dispatched
    /\ dispatch.local = [type |-> "response", status |-> 404]
    /\ dispatch.cloud = [type |-> "response", status |-> 500]
    /\ dispatch.resp.from = "cloud"

InvalidLocalResult ==
    dispatch.exportKind = "other" \/ dispatch.local.type = "value"

\* C3: when the module's default export is not a function, or the handler
\* returns a value that is not a Response, the cloud proxy is attempted and
\* its response returned if one is obtained; otherwise a 500 JSON error is
\* returned; the invalid local result is never sent to the client.
C3_InvalidHandlerFallsBack ==
    (Dispatched /\ InvalidLocalResult) =>
        /\ dispatch.cloudCalls = 1
        /\ CloudResponded => ReturnsCloudResponse
        /\ CloudThrew => (dispatch.resp.from = "json" /\ dispatch.resp.status = 500)
        /\ dispatch.resp.from # "local"

\* C3 witness: the handler returned a non-Response and the proxy call threw.
C3_Witness ==
    /\ Dispatched
    /\ dispatch.local.type = "value"
    /\ CloudThrew
    /\ dispatch.resp = [from |-> "json", status |-> 500, error |-> InvalidResponseError]

LocalThrew == dispatch.exportKind = "throw" \/ dispatch.local.type = "throw"

\* C18: when importing the matched module or running its handler throws,
\* dispatch still returns a response: the cloud proxy is attempted, its
\* response is returned if the call completes, and otherwise the 502
\* 'Local handler failed and cloud fallback unavailable' JSON error.
C18_ThrowFallsBack ==
    /\ LocalThrew => dispatch.pc \in {"fallback", "done"}
    /\ (Dispatched /\ LocalThrew) =>
          /\ dispatch.cloudCalls = 1
          /\ CloudResponded => ReturnsCloudResponse
          /\ CloudThrew =>
                dispatch.resp = [from |-> "json", status |-> 502,
                                 error |-> "Local handler failed and cloud fallback unavailable"]
          /\ CloudResponded \/ CloudThrew

\* C18 witness: the handler threw, then the proxy call threw, and the 502
\* error was returned.
C18_Witness ==
    /\ Dispatched
    /\ dispatch.local.type = "throw"
    /\ CloudThrew
    /\ dispatch.resp.status = 502
    /\ dispatch.resp.from = "json"

LocalOk ==
    /\ dispatch.local.type = "response"
    /\ dispatch.local.status >= 200
    /\ dispatch.local.status <= 299

\* C19: when the handler of the matched, existing module returns a Response
\* with a 2xx status, that Response is what dispatch returns and the cloud
\* proxy is not called for the request; the proxy is called only after a
\* fallback reason arose.
C19_CloudOnlyOnFallback ==
    /\ LocalOk =>
          /\ dispatch.cloudCalls = 0
          /\ Dispatched
          /\ dispatch.resp = [from |-> "local", status |-> dispatch.local.status, error |-> ""]
    /\ dispatch.cloudCalls > 0 => dispatch.reason # "none"

\* C19 witness: a local 299 was returned as it is, the cloud never called.
C19_Witness ==
    /\ Dispatched
    /\ dispatch.local = [type |-> "response", status |-> 299]
    /\ dispatch.resp.from = "local"
    /\ dispatch.cloudCalls = 0
    /\ dispatch.onDisk

(***************************************************************************)
(* api/youtube/embed: the embed handler                                    *)
(***************************************************************************)
UpperChars == {"A", "B", "C", "D", "E", "F", "G", "H", "I", "J", "K", "L", "M",
               "N", "O", "P", "Q", "R", "S", "T", "U", "V", "W", "X", "Y", "Z"}
LowerChars == {"a", "b", "c", "d", "e", "f", "g", "h", "i", "j", "k", "l", "m",
               "n", "o", "p", "q", "r", "s", "t", "u", "v", "w", "x", "y", "z"}
DigitChars == {"0", "1", "2", "3", "4", "5", "6", "7", "8", "9"}

\* the character class [A-Za-z0-9_-]
inIdClass(c) == c \in UpperChars \cup LowerChars \cup DigitChars \cup {"_", "-"}

VideoIdLength == 11

\* Faulty variant of matchesIdPattern: the pattern without its $ anchor.
matchesIdPatternNoEnd(s, n) ==
    /\ Len(s) >= n
    /\ \A i \in 1..n : inIdClass(s[i])

\* /^[A-Za-z0-9_-]{n}$/.test(s): n characters of the class are consumed from
\* the start, and the end of the string must follow.
RECURSIVE matchesIdPattern(_, _)
matchesIdPattern(s, n) ==
    IF n = 0 THEN s = <<>>
    ELSE IF s = <<>> THEN FALSE
    ELSE inIdClass(Head(s)) /\ matchesIdPattern(Tail(s), n - 1)

\* sanitizeVideoId: the id, or Absent for null
sanitizeVideoId(param) ==
    IF ~param.present THEN Absent
    ELSE IF matchesIdPattern(param.value, VideoIdLength) THEN param ELSE Absent

\* parseFlag(value, fallback)
parseFlag(param, fallback) ==
    IF param.present /\ (param.value = <<"0">> \/ param.value = <<"1">>)
    THEN param.value ELSE fallback

EmbedBase == <<"h", "t", "t", "p", "s", ":", "/", "/", "w", "w", "w", ".",
               "y", "o", "u", "t", "u", "b", "e", ".", "c", "o", "m",
               "/", "e", "m", "b", "e", "d", "/">>

embedHandler(query) ==
    LET videoId == sanitizeVideoId(query.videoId)
    IN IF ~videoId.present
       THEN [status |-> 400, contentType |-> "text/plain; charset=utf-8",
             src |-> <<>>, autoplay |-> <<>>, mute |-> <<>>]
       ELSE [status |-> 200, contentType |-> "text/html; charset=utf-8",
             src |-> EmbedBase \o videoId.value,
             autoplay |-> parseFlag(query.autoplay, <<"1">>),
             mute |-> parseFlag(query.mute, <<"1">>)]

IdAlphabet == {"a", "Z", "7", "_", "-", "!", "."}

\* ids of one length: a run of 'a' with one position drawn from the alphabet
IdsOfLength(n) ==
    IF n = 0 THEN {<<>>}
    ELSE {[i \in 1..n |-> IF i = k THEN c ELSE "a"] : k \in 1..n, c \in IdAlphabet}

VideoIds == UNION {IdsOfLength(n) : n \in 0..MaxIdLen}
FlagParams == {Absent, Param(<<"0">>), Param(<<"2">>)}

EmbedInit ==
    /\ PanelsIdle
    /\ DigestIdle
    /\ IntelIdle
    /\ MatchIdle
    /\ TableIdle
    /\ PickIdle
    /\ ServerIdle
    /\ \E videoId \in {Absent} \cup {Param(v) : v \in VideoIds},
          autoplay \in FlagParams, mute \in FlagParams :
            embedReq = [handled |-> FALSE, videoId |-> videoId,
                        autoplay |-> autoplay, mute |-> mute]
    /\ embedResp = NoEmbedResponse

\* The handler answers the request.
EmbedRequest ==
    /\ embedReq' = [embedReq EXCEPT !.handled = TRUE]
    /\ embedResp' = embedHandler(embedReq)
    /\ UNCHANGED exceptEmbed

SpecEmbed == EmbedInit /\ [][EmbedRequest]_vars

(***************************************************************************)
(* Claims about the embed handler                                          *)
(***************************************************************************)
ValidIdChars == UpperChars \cup LowerChars \cup DigitChars \cup {"_", "-"}

IsValidVideoId(param) ==
    /\ param.present
    /\ Len(param.value) = 11
    /\ \A i \in 1..Len(param.value) : param.value[i] \in ValidIdChars

\* C7: the embed handler returns 400 exactly when videoId is absent or is
\* not 11 characters of [A-Za-z0-9_-]; every other request gets 200 with a
\* text/html body embedding https://www.youtube.com/embed/<videoId>.
C7_EmbedValidation ==
    embedReq.handled =>
        /\ (embedResp.status = 400) <=> ~IsValidVideoId(embedReq.videoId)
        /\ IsValidVideoId(embedReq.videoId) =>
              /\ embedResp.status = 200
              /\ embedResp.contentType = "text/html; charset=utf-8"
              /\ embedResp.src = EmbedBase \o embedReq.videoId.value

\* C7 witness: an 11-character id with '_' in it was embedded.
C7_Witness ==
    /\ embedReq.handled
    /\ embedReq.videoId.present
    /\ Len(embedReq.videoId.value) = 11
    /\ embedReq.videoId.value[3] = "_"
    /\ embedResp.status = 200

(***************************************************************************)
(* api/country-intel.js                                                    *)
(***************************************************************************)
CACHE_VERSION == <<"c", "i", "-", "v", "1">>
NoCtx == <<"n", "o", "-", "c", "t", "x">>
COLON == ":"
Base36Digits == <<"0", "1", "2", "3", "4", "5", "6", "7", "8", "9",
                  "a", "b", "c", "d", "e", "f", "g", "h", "i", "j", "k", "l", "m",
                  "n", "o", "p", "q", "r", "s", "t", "u", "v", "w", "x", "y", "z">>

\* A 32-bit integer is the pair <<hi, lo>> of its 16-bit halves (two's
\* complement), so that no intermediate value leaves the range of the checker.
Half == 65536

\* w << 5
shl5(w) == <<((w[1] * 32) + ((w[2] * 32) \div Half)) % Half, (w[2] * 32) % Half>>

\* (a - b) | 0
sub32(a, b) ==
    LET lo == a[2] - b[2]
        borrow == IF lo < 0 THEN 1 ELSE 0
    IN <<(a[1] - b[1] - borrow + 2 * Half) % Half, (lo + Half) % Half>>

\* (w + c) | 0 for a char code c
add32(w, c) == <<(w[1] + ((w[2] + c) \div Half)) % Half, (w[2] + c) % Half>>

\* hashString's loop over the char codes:
\* hash = ((hash << 5) - hash) + str.charCodeAt(i); hash |= 0
RECURSIVE hashLoop(_, _)
hashLoop(codes, hash) ==
    IF codes = <<>> THEN hash
    ELSE hashLoop(Tail(codes), add32(sub32(shl5(hash), hash), Head(codes)))

\* Math.abs of a 32-bit integer, as an unsigned pair
abs32(w) == IF w[1] >= Half \div 2 THEN sub32(<<0, 0>>, w) ELSE w

\* Number.prototype.toString(36) for a non-negative integer
RECURSIVE toString36(_)
toString36(n) ==
    IF n[1] = 0 /\ n[2] < 36 THEN <<Base36Digits[n[2] + 1]>>
    ELSE LET low == ((n[1] % 36) * Half) + n[2]
         IN Append(toString36(<<n[1] \div 36, low \div 36>>), Base36Digits[(low % 36) + 1])

hashString(codes) == toString36(abs32(hashLoop(codes, <<0, 0>>)))

\* context ? hashString(JSON.stringify(context)).slice(0, 8) : 'no-ctx'
contextHashOf(context) ==
    IF context.present /\ context.truthy THEN SliceTo(hashString(context.json), 8) ELSE NoCtx

\* `${CACHE_VERSION}:${code}:${contextHash}`
cacheKeyOf(code, context) ==
    CACHE_VERSION \o <<COLON>> \o code \o <<COLON>> \o contextHashOf(context)

\* groqRes.ok
groqOk(status) == status >= 200 /\ status <= 299

\* Faulty variant of shouldCache: the brief is not tested.
shouldCacheAnyBrief(useRedis, brief) == useRedis

\* redisClient && brief
shouldCache(useRedis, brief) == useRedis /\ brief # ""

\* cached && typeof cached === 'object' && cached.brief
isCacheHit(found) == found.present /\ found.value.brief # ""

\* redisClient.get(cacheKey): the stored value, or null
redisGet(store, key) ==
    IF \E e \in store : e.key = key
    THEN [present |-> TRUE, value |-> (CHOOSE e \in store : e.key = key).value]
    ELSE [present |-> FALSE, value |-> NoEntry]

\* redisClient.set(cacheKey, result, { ex: CACHE_TTL_SECONDS })
redisSet(store, key, value) ==
    {e \in store : e.key # key} \cup {[key |-> key, value |-> value]}

CodeFR == <<"F", "R">>
CodeUS == <<"U", "S">>
\* the char codes of '{"score":5}'
JsonScore == <<123, 34, 115, 99, 111, 114, 101, 34, 58, 53, 125>>

NoContext == [present |-> FALSE, truthy |-> FALSE, json |-> <<>>]
\* context: 0, which is not truthy
ZeroContext == [present |-> TRUE, truthy |-> FALSE, json |-> <<48>>]
ScoreContext == [present |-> TRUE, truthy |-> TRUE, json |-> JsonScore]

\* the code and context parts of the request bodies
CodeAndContext ==
    { <<<<>>, NoContext>>, <<<<>>, ScoreContext>>,
      <<CodeFR, NoContext>>, <<CodeFR, ZeroContext>>, <<CodeFR, ScoreContext>>,
      <<CodeUS, NoContext>> }

Bodies ==
    { [NoBody EXCEPT !.kind = "invalid"], [NoBody EXCEPT !.kind = "null"] }
        \cup { [kind |-> "object", country |-> country, code |-> cc[1], context |-> cc[2]] :
                 country \in {"", "France"}, cc \in CodeAndContext }

IntelMethods == {"GET", "POST"}
GroqStatuses == {200, 404, 500}
GroqContents == {"", "brief-1", "brief-2"}

IntelInit ==
    /\ PanelsIdle
    /\ DigestIdle
    /\ MatchIdle
    /\ TableIdle
    /\ PickIdle
    /\ ServerIdle
    /\ EmbedIdle
    /\ intelEnv \in [apiKey : BOOLEAN, redis : BOOLEAN]
    /\ redisState = "unset"
    /\ redisStore = {}
    /\ intel = IdleIntel

IntelQuiet == intel.pc \in {"idle", "done"}

errorResponse(status, error, fallback) ==
    [NoIntelResponse EXCEPT !.status = status, !.error = error, !.fallback = fallback]

\* Faulty variant of earlyResponse: the API key is tested before the method.
earlyResponseKeyFirst(method, apiKey, body) ==
    IF ~apiKey THEN errorResponse(503, "Groq API key not configured", TRUE)
    ELSE IF method # "POST" THEN errorResponse(405, "Method not allowed", FALSE)
    ELSE IF body.kind \in {"invalid", "null"} THEN errorResponse(500, "Internal error", FALSE)
    ELSE IF body.country = "" \/ body.code = <<>>
    THEN errorResponse(400, "country and code required", FALSE)
    ELSE NoIntelResponse

\* handler, lines 46-69: the method, the key, the body (request.json() or
\* the destructuring of null throws into the outer catch), then country and
\* code; NoIntelResponse when the handler goes on.
earlyResponse(method, apiKey, body) ==
    IF method # "POST" THEN errorResponse(405, "Method not allowed", FALSE)
    ELSE IF ~apiKey THEN errorResponse(503, "Groq API key not configured", TRUE)
    ELSE IF body.kind \in {"invalid", "null"} THEN errorResponse(500, "Internal error", FALSE)
    ELSE IF body.country = "" \/ body.code = <<>>
    THEN errorResponse(400, "country and code required", FALSE)
    ELSE NoIntelResponse

\* getRedis(), lines 20-34: an existing client is reused, a failed init is
\* remembered, and new Redis() may throw.
getRedis(state, configured, initThrows) ==
    IF state = "client" THEN "client"
    ELSE IF state = "failed" THEN "failed"
    ELSE IF ~configured THEN "unset"
    ELSE IF initThrows THEN "failed" ELSE "client"

\* handler, lines 46-75: the early returns, the cache key and getRedis().
IntelStart ==
    /\ IntelQuiet
    /\ \E method \in IntelMethods, body \in Bodies, initThrows \in BOOLEAN :
        LET r == [IdleIntel EXCEPT !.method = method, !.body = body]
            early == earlyResponse(method, intelEnv.apiKey, body)
            client == getRedis(redisState, intelEnv.redis, initThrows)
        IN IF early # NoIntelResponse
           THEN /\ intel' = [r EXCEPT !.pc = "done", !.resp = early]
                /\ UNCHANGED redisState
           ELSE /\ redisState' = client
                /\ intel' = [r EXCEPT !.pc = IF client = "client" THEN "cacheRead" ELSE "groq",
                                !.useRedis = (client = "client"),
                                !.cacheKey = cacheKeyOf(body.code, body.context)]
    /\ UNCHANGED <<exceptIntel, intelEnv, redisStore>>

\* lines 76-89: redisClient.get returns the entry or null, or throws.
IntelCacheRead ==
    /\ intel.pc = "cacheRead"
    /\ \/ LET found == redisGet(redisStore, intel.cacheKey)
          IN intel' =
               IF isCacheHit(found)
               THEN [intel EXCEPT !.pc = "done", !.cacheReads = @ + 1,
                        !.found = found.value,
                        !.resp = [NoIntelResponse EXCEPT !.status = 200, !.cached = TRUE,
                                     !.brief = found.value.brief,
                                     !.country = found.value.country,
                                     !.code = found.value.code]]
               ELSE [intel EXCEPT !.pc = "groq", !.cacheReads = @ + 1,
                        !.found = found.value]
       \/ intel' = [intel EXCEPT !.pc = "groq", !.cacheReads = @ + 1]
    /\ UNCHANGED <<exceptIntel, intelEnv, redisState, redisStore>>

\* lines 133-183 without the cache write: the Groq call and its result.
IntelGroq ==
    /\ intel.pc = "groq"
    /\ \/ \* fetch or groqRes.json() throws: the outer catch
          intel' = [intel EXCEPT !.pc = "done", !.groqCalls = @ + 1,
                       !.resp = errorResponse(500, "Internal error", FALSE)]
       \/ \E status \in GroqStatuses, brief \in GroqContents :
            intel' =
              IF ~groqOk(status)
              THEN [intel EXCEPT !.pc = "done", !.groqCalls = @ + 1,
                       !.resp = errorResponse(502, "AI service error", TRUE)]
              ELSE LET result == [brief |-> brief, country |-> intel.body.country,
                                  code |-> intel.body.code, groqStatus |-> status]
                   IN [intel EXCEPT !.groqCalls = @ + 1, !.result = result,
                          !.pc = IF shouldCache(intel.useRedis, brief)
                                 THEN "cacheWrite" ELSE "done",
                          !.resp = [NoIntelResponse EXCEPT !.status = 200,
                                       !.brief = brief, !.country = intel.body.country,
                                       !.code = intel.body.code]]
    /\ UNCHANGED <<exceptIntel, intelEnv, redisState, redisStore>>

\* lines 171-178: redisClient.set stores the result, or throws.
IntelCacheWrite ==
    /\ intel.pc = "cacheWrite"
    /\ \/ redisStore' = redisSet(redisStore, intel.cacheKey, intel.result)
       \/ UNCHANGED redisStore
    /\ intel' = [intel EXCEPT !.pc = "done"]
    /\ UNCHANGED <<exceptIntel, intelEnv, redisState>>

\* An entry reaches its TTL (CACHE_TTL_SECONDS) and Redis drops it.
IntelExpire ==
    /\ \E e \in redisStore : redisStore' = redisStore \ {e}
    /\ UNCHANGED <<exceptIntel, intelEnv, redisState, intel>>

IntelNext ==
    \/ IntelStart
    \/ IntelCacheRead
    \/ IntelGroq
    \/ IntelCacheWrite
    \/ IntelExpire

SpecIntel == IntelInit /\ [][IntelNext]_vars

(***************************************************************************)
(* Claims about the country-intel handler                                  *)
(***************************************************************************)
IntelDone == intel.pc = "done"

\* C8: every entry in the cache holds a non-empty brief produced by a 2xx
\* Groq call, and a request that found an entry with a brief under its cache
\* key was answered from that entry with cached:true and status 200, without
\* a Groq call.
C8_CacheDiscipline ==
    /\ \A e \in redisStore :
          /\ e.value.brief # ""
          /\ e.value.groqStatus >= 200 /\ e.value.groqStatus <= 299
    /\ (IntelDone /\ intel.found.brief # "") =>
          /\ intel.resp.status = 200
          /\ intel.resp.cached
          /\ intel.resp.brief = intel.found.brief
          /\ intel.groqCalls = 0

\* C8 witness: a request was answered from an entry cached under the key of
\* code FR with a context hash, while the no-context key holds another entry.
C8_Witness ==
    /\ IntelDone
    /\ intel.cacheKey = cacheKeyOf(CodeFR, ScoreContext)
    /\ intel.found.brief = "brief-2"
    /\ intel.resp.cached
    /\ \E e \in redisStore : e.key = cacheKeyOf(CodeFR, NoContext) /\ e.value.brief = "brief-1"

LacksCountryOrCode(body) == body.country = "" \/ body.code = <<>>

NoCacheNoGroq == intel.cacheReads = 0 /\ intel.groqCalls = 0

\* C9 as stated: a non-POST request gets 405 whatever the configuration; a
\* POST without GROQ_API_KEY gets 503 with fallback:true whatever its body;
\* a POST with the key but without country or code gets 400; in none of
\* these cases is the cache read or Groq called.
C9_CheckOrderAsStated ==
    IntelDone =>
        /\ intel.method # "POST" =>
              (intel.resp.status = 405 /\ NoCacheNoGroq)
        /\ (intel.method = "POST" /\ ~intelEnv.apiKey) =>
              (intel.resp.status = 503 /\ intel.resp.fallback /\ NoCacheNoGroq)
        /\ (intel.method = "POST" /\ intelEnv.apiKey /\ LacksCountryOrCode(intel.body)) =>
              (intel.resp.status = 400 /\ NoCacheNoGroq)

\* C9 amended: as C9, but the 400 is for a body that parses to a non-null
\* JSON value lacking country or code; a body that does not parse, or is
\* null, gets 500, also without a cache read or Groq call.
C9_CheckOrder ==
    IntelDone =>
        /\ intel.method # "POST" =>
              (intel.resp.status = 405 /\ NoCacheNoGroq)
        /\ (intel.method = "POST" /\ ~intelEnv.apiKey) =>
              (intel.resp.status = 503 /\ intel.resp.fallback /\ NoCacheNoGroq)
        /\ (/\ intel.method = "POST" /\ intelEnv.apiKey
            /\ intel.body.kind = "object" /\ LacksCountryOrCode(intel.body)) =>
              (intel.resp.status = 400 /\ NoCacheNoGroq)
        /\ (/\ intel.method = "POST" /\ intelEnv.apiKey
            /\ intel.body.kind \in {"invalid", "null"}) =>
              (intel.resp.status = 500 /\ NoCacheNoGroq)

\* C9 witness: with no key configured, a GET got 405 rather than 503.
C9_Witness ==
    /\ IntelDone
    /\ ~intelEnv.apiKey
    /\ intel.method = "GET"
    /\ intel.resp.status = 405

(***************************************************************************)
(* components/CountersPanel.ts: GoodThingsDigestPanel                      *)
(***************************************************************************)
TopCount == 5
TitleLimit == 200

LongTitle == [i \in 1..(TitleLimit + 1) |-> "t"]

\* The news items, named by their id; n2 has a title longer than the limit.
AllItems == <<"n1", "n2", "n3", "n4", "n5", "n6">>

titleOf(item) == IF item = "n2" THEN LongTitle ELSE <<"title of", item>>

\* the lists handed to setStories
StoryLists ==
    { <<>>, <<AllItems[2], AllItems[1]>>, AllItems }

\* what generateSummary produces for an item
SummaryOf(item) == <<"summary of", item>>
LoadingText == <<"Summarizing">>

\* a stub card, lines 172-185
stubCard(call, item) ==
    [call |-> call, item |-> item, loading |-> TRUE, summary |-> LoadingText, writer |-> 0]

\* Faulty variant of signalAborted: an aborted signal is not noticed.
signalNeverAborted(call, aborted) == FALSE

\* signal.aborted, for the signal captured by a call's callbacks
signalAborted(call, aborted) == call \in aborted

\* updateCardSummary, lines 215-222 (writer records the call that wrote)
updateCardSummary(cards, idx, summary, writer) ==
    IF idx > Len(cards) THEN cards
    ELSE [cards EXCEPT ![idx] = [@ EXCEPT !.summary = summary, !.loading = FALSE,
                                         !.writer = writer]]

\* Faulty variant of summaryText: the fallback is the whole title.
summaryTextWholeTitle(outcome, item) ==
    IF outcome = "summary" THEN SummaryOf(item) ELSE titleOf(item)

\* result?.summary ?? item.title.slice(0, 200), and the catch's fallback
summaryText(outcome, item) ==
    IF outcome = "summary" THEN SummaryOf(item) ELSE SliceTo(titleOf(item), TitleLimit)

DigestInit ==
    /\ PanelsIdle
    /\ MatchIdle
    /\ TableIdle
    /\ PickIdle
    /\ ServerIdle
    /\ EmbedIdle
    /\ IntelIdle
    /\ DigestIdle

\* setStories, lines 149-210 up to the awaits: the previous batch is
\* aborted, the first five items get stub cards, and each callback runs to
\* its await of generateSummary.
SetStories ==
    /\ callCount < MaxCalls
    /\ \E items \in StoryLists :
        LET call == callCount + 1
            top5 == SliceTo(items, TopCount)
        IN /\ abortedSignals' =
                 IF summaryAbort # 0 THEN abortedSignals \cup {summaryAbort}
                 ELSE abortedSignals
           /\ summaryAbort' = call
           /\ callCount' = call
           /\ stories' = items
           /\ IF Len(top5) = 0
              THEN /\ content' = "No stories available"
                   /\ cardElements' = <<>>
                   /\ UNCHANGED tasks
              ELSE /\ content' = "digest-list"
                   /\ cardElements' = [i \in 1..Len(top5) |-> stubCard(call, top5[i])]
                   /\ tasks' = tasks \cup
                         {[call |-> call, idx |-> i, item |-> top5[i]] : i \in 1..Len(top5)}
    /\ UNCHANGED exceptDigest

\* One callback resumes, lines 196-208: generateSummary gave a summary, gave
\* no result, or rejected.
SummarySettles ==
    \E t \in tasks :
        /\ tasks' = tasks \ {t}
        /\ IF signalAborted(t.call, abortedSignals)
           THEN UNCHANGED cardElements
           ELSE \E outcome \in {"summary", "null", "reject"} :
                  cardElements' =
                      updateCardSummary(cardElements, t.idx, summaryText(outcome, t.item), t.call)
        /\ UNCHANGED <<exceptDigest, summaryAbort, abortedSignals, content, callCount, stories>>

\* destroy, lines 227-234
DigestDestroy ==
    /\ abortedSignals' =
          IF summaryAbort # 0 THEN abortedSignals \cup {summaryAbort} ELSE abortedSignals
    /\ summaryAbort' = 0
    /\ cardElements' = <<>>
    /\ UNCHANGED <<exceptDigest, content, tasks, callCount, stories>>

DigestNext ==
    \/ SetStories
    \/ SummarySettles
    \/ DigestDestroy

SpecDigest == DigestInit /\ [][DigestNext]_vars

(***************************************************************************)
(* Claims about GoodThingsDigestPanel                                      *)
(***************************************************************************)
\* C10: a result of a setStories call that was followed by another
\* setStories or by destroy is never written into a card: every card that
\* holds a result was stubbed and written by the most recent setStories
\* call, whose controller is still the current one.
C10_NoStaleSummary ==
    \A i \in 1..Len(cardElements) :
        /\ cardElements[i].call = callCount
        /\ cardElements[i].call = summaryAbort
        /\ cardElements[i].writer \in {0, callCount}
        /\ ~cardElements[i].loading => cardElements[i].writer = callCount

\* C10 witness: the second call replaced the first while the first call's
\* summary for card 1 was pending; it still is, its signal aborted, and card
\* 1 holds the second call's summary.
C10_Witness ==
    /\ callCount = 2
    /\ 1 \in abortedSignals
    /\ \E t \in tasks : t.call = 1 /\ t.idx = 1
    /\ Len(cardElements) >= 1
    /\ cardElements[1].writer = 2
    /\ cardElements[1].summary = SummaryOf(cardElements[1].item)

\* the callbacks of the latest setStories call that still await generateSummary
PendingOf(idx) == \E t \in tasks : t.call = callCount /\ t.idx = idx

\* C11: while the latest setStories call has not been followed by destroy,
\* the cards are the first five items of its list, in order (none for an
\* empty list), and every card whose summarisation has settled has left the
\* loading state and shows the generated summary or the first 200
\* characters of the item's title.
C11_GracefulFallback ==
    (summaryAbort # 0) =>
        /\ Len(cardElements) = (IF Len(stories) < TopCount THEN Len(stories) ELSE TopCount)
        /\ Len(cardElements) <= TopCount
        /\ \A i \in 1..Len(cardElements) :
              /\ cardElements[i].item = stories[i]
              /\ PendingOf(i) => cardElements[i].loading
              /\ ~PendingOf(i) =>
                    /\ ~cardElements[i].loading
                    /\ cardElements[i].summary \in
                          { SummaryOf(stories[i]),
                            [k \in 1..(IF Len(titleOf(stories[i])) < TitleLimit
                                       THEN Len(titleOf(stories[i])) ELSE TitleLimit)
                                |-> titleOf(stories[i])[k]] }

\* C11 witness: six items were given, five cards exist, and the card of the
\* long-titled item settled without a summary and shows the first 200
\* characters of its title.
C11_Witness ==
    /\ summaryAbort # 0
    /\ Len(stories) = 6
    /\ Len(cardElements) = TopCount
    /\ ~PendingOf(2)
    /\ ~cardElements[2].loading
    /\ Len(cardElements[2].summary) = TitleLimit
    /\ Len(titleOf(cardElements[2].item)) > TitleLimit

(***************************************************************************)
(* components/PositiveNewsFeedPanel.ts                                     *)
(***************************************************************************)
\* HAPPY_CATEGORY_ALL: the categories that have a filter button
HappyCategories ==
    {"science-health", "nature-wildlife", "humanity-kindness",
     "innovation-tech", "climate-wins", "culture-community"}

\* the keys of filterButtons, lines 41 and 53
FilterKeys == {"all"} \cup HappyCategories

\* News items; happyCategory "" stands for an item without a category.
FeedItems ==
    { [id |-> "s1", happyCategory |-> "science-health"],
      [id |-> "w1", happyCategory |-> "nature-wildlife"],
      [id |-> "u1", happyCategory |-> ""] }

FeedLists == UNION { [1..n -> FeedItems] : n \in 0..MaxItems }

\* Faulty variant of filterItems: 'all' is compared like a category.
filterItemsNoAll(filter, items) ==
    SelectSeq(items, LAMBDA item : item.happyCategory = filter)

\* applyFilter's selection, lines 93-95
filterItems(filter, items) ==
    IF filter = "all" THEN items
    ELSE SelectSeq(items, LAMBDA item : item.happyCategory = filter)

\* renderCards, lines 104-117: one card per item, carrying its index
renderCards(items) ==
    IF Len(items) = 0
    THEN [kind |-> "empty", cards |-> <<>>]
    ELSE [kind |-> "cards",
          cards |-> [i \in 1..Len(items) |-> [item |-> items[i], idx |-> i - 1]]]

FeedInit ==
    /\ IdleExceptFeed
    /\ FeedIdle

\* A click on a filter button: setFilter, lines 64-77, then applyFilter.
SetFilter ==
    /\ ~feedDestroyed
    /\ \E filter \in FilterKeys :
        /\ lastClicked' = filter
        /\ activeFilter' = filter
        /\ activeButtons' = {key \in FilterKeys : key = filter}
        /\ filteredItems' = filterItems(filter, allItems)
        /\ feedContent' = renderCards(filterItems(filter, allItems))
    /\ UNCHANGED <<exceptFeed, allItems, feedDestroyed>>

\* renderPositiveNews, lines 83-87, then applyFilter.
RenderPositiveNews ==
    \E items \in FeedLists :
        /\ allItems' = items
        /\ filteredItems' = filterItems(activeFilter, items)
        /\ feedContent' = renderCards(filterItems(activeFilter, items))
        /\ UNCHANGED <<exceptFeed, activeFilter, activeButtons, lastClicked, feedDestroyed>>

\* destroy, lines 180-187: the buttons lose their handlers
FeedDestroy ==
    /\ ~feedDestroyed
    /\ feedDestroyed' = TRUE
    /\ UNCHANGED <<exceptFeed, activeFilter, allItems, filteredItems, feedContent,
                   activeButtons, lastClicked>>

FeedNext ==
    \/ SetFilter
    \/ RenderPositiveNews
    \/ FeedDestroy

SpecFeed == FeedInit /\ [][FeedNext]_vars

(***************************************************************************)
(* Claims about PositiveNewsFeedPanel                                      *)
(***************************************************************************)
\* the items of a list that a filter keeps, as a set of positions
KeptPositions(filter, items) ==
    {i \in 1..Len(items) : filter = "all" \/ items[i].happyCategory = filter}

\* cards show exactly the kept items of items, in their order
ShowsKept(cards, filter, items) ==
    /\ Len(cards) = Cardinality(KeptPositions(filter, items))
    /\ \A k \in 1..Len(cards) :
         \E i \in KeptPositions(filter, items) :
            /\ Cardinality({j \in KeptPositions(filter, items) : j <= i}) = k
            /\ cards[k].item = items[i]

\* C12: the active filter is the one clicked last ('all' before any click),
\* whatever lists were rendered in between, and the cards are exactly the
\* items of the latest list whose happyCategory equals it (all items for
\* 'all'), in their original order.
C12_FilterPreserved ==
    /\ activeFilter = lastClicked
    /\ ShowsKept(feedContent.cards, lastClicked, allItems)

\* C12 witness: a category was clicked, then a list mixing categories was
\* rendered, and only part of it is shown.
C12_Witness ==
    /\ lastClicked = "science-health"
    /\ Len(allItems) = 3
    /\ allItems[1].happyCategory = "nature-wildlife"
    /\ allItems[2].happyCategory = "science-health"
    /\ allItems[3].happyCategory = "science-health"
    /\ Len(feedContent.cards) = 2

(***************************************************************************)
(* services/happy-share-renderer.ts: shareHappyCard                        *)
(***************************************************************************)
\* What the browser offers: navigator.share, the verdict of
\* navigator.canShare({files}) ("absent" when the method does not exist),
\* and navigator.clipboard.
Navigators ==
    [share : BOOLEAN,
     canShare : {"absent", "true", "false", "throws"},
     clipboard : BOOLEAN]

\* navigator.share && navigator.canShare?.({ files: [file] }), line 202;
\* "throws" when canShare is reached and throws
webShareUsable(nav) ==
    IF ~nav.share THEN "no"
    ELSE IF nav.canShare = "throws" THEN "throws"
    ELSE IF nav.canShare = "true" THEN "yes"
    ELSE "no"

\* after navigator.share settled, lines 203-211
afterShare(ok) == IF ok THEN "done" ELSE "clipboard"

\* Faulty variant of afterClipboard: the download follows in any case.
afterClipboardAlwaysDownload(ok) == "download"

\* after navigator.clipboard.write settled, lines 215-222
afterClipboard(ok) == IF ok THEN "done" ELSE "download"

ShareInit ==
    /\ IdleExceptShare
    /\ shareNav \in Navigators
    /\ sharePc = "idle"
    /\ shareLog = <<>>
    /\ shareError = ""

\* shareHappyCard is called, line 189
ShareStart ==
    /\ sharePc = "idle"
    /\ sharePc' = "render"
    /\ UNCHANGED <<exceptShare, shareNav, shareLog, shareError>>

\* renderHappyShareCard settles, line 190: a rejection rejects the call
ShareRender ==
    /\ sharePc = "render"
    /\ \E rendered \in BOOLEAN :
        IF rendered
        THEN sharePc' = "blob" /\ UNCHANGED shareError
        ELSE sharePc' = "rejected" /\ shareError' = "render"
    /\ UNCHANGED <<exceptShare, shareNav, shareLog>>

\* canvas.toBlob calls back, lines 192-199: a null blob rejects the call;
\* otherwise line 202 decides whether Web Share is tried.
ShareBlob ==
    /\ sharePc = "blob"
    /\ \E blob \in BOOLEAN :
        IF ~blob
        THEN sharePc' = "rejected" /\ shareError' = "Canvas toBlob returned null"
        ELSE IF webShareUsable(shareNav) = "throws"
        THEN sharePc' = "rejected" /\ shareError' = "canShare"
        ELSE /\ sharePc' = (IF webShareUsable(shareNav) = "yes" THEN "share" ELSE "clipboard")
             /\ UNCHANGED shareError
    /\ UNCHANGED <<exceptShare, shareNav, shareLog>>

\* navigator.share resolves or rejects, lines 203-211
ShareWebShare ==
    /\ sharePc = "share"
    /\ \E ok \in BOOLEAN :
        /\ shareLog' = Append(shareLog, [mechanism |-> "share", ok |-> ok])
        /\ sharePc' = afterShare(ok)
    /\ UNCHANGED <<exceptShare, shareNav, shareError>>

\* navigator.clipboard.write resolves, rejects, or cannot be called,
\* lines 215-222
ShareClipboard ==
    /\ sharePc = "clipboard"
    /\ \E ok \in BOOLEAN :
        /\ ok => shareNav.clipboard
        /\ shareLog' = Append(shareLog, [mechanism |-> "clipboard", ok |-> ok])
        /\ sharePc' = afterClipboard(ok)
    /\ UNCHANGED <<exceptShare, shareNav, shareError>>

\* the anchor download, lines 225-232
ShareDownload ==
    /\ sharePc = "download"
    /\ shareLog' = Append(shareLog, [mechanism |-> "download", ok |-> TRUE])
    /\ sharePc' = "done"
    /\ UNCHANGED <<exceptShare, shareNav, shareError>>

ShareNext ==
    \/ ShareStart
    \/ ShareRender
    \/ ShareBlob
    \/ ShareWebShare
    \/ ShareClipboard
    \/ ShareDownload

SpecShare == ShareInit /\ [][ShareNext]_vars

(***************************************************************************)
(* Claims about shareHappyCard                                             *)
(***************************************************************************)
Attempted(mechanism) == \E k \in 1..Len(shareLog) : shareLog[k].mechanism = mechanism

Failed(mechanism) ==
    \E k \in 1..Len(shareLog) : shareLog[k].mechanism = mechanism /\ ~shareLog[k].ok

MechanismRank(mechanism) ==
    IF mechanism = "share" THEN 1 ELSE IF mechanism = "clipboard" THEN 2 ELSE 3

\* C13: the mechanisms are attempted in the order Web Share, clipboard,
\* download, each at most once; the clipboard write is attempted only if
\* Web Share is unavailable, cannot share the file, or failed; the download
\* only if the clipboard write failed; and nothing is attempted after a
\* mechanism succeeded.
C13_FallbackChain ==
    /\ \A k \in 1..Len(shareLog) : \A l \in 1..Len(shareLog) :
          k < l => MechanismRank(shareLog[k].mechanism) < MechanismRank(shareLog[l].mechanism)
    /\ Attempted("clipboard") =>
          \/ ~shareNav.share
          \/ shareNav.canShare \in {"absent", "false"}
          \/ Failed("share")
    /\ Attempted("download") => Failed("clipboard")
    /\ \A k \in 1..Len(shareLog) :
          shareLog[k].ok => (k = Len(shareLog) /\ sharePc = "done")

\* C13 witness: Web Share was tried and failed, the clipboard write failed,
\* and the download ran.
C13_Witness ==
    /\ sharePc = "done"
    /\ Len(shareLog) = 3
    /\ Failed("share")
    /\ Failed("clipboard")
    /\ shareLog[3] = [mechanism |-> "download", ok |-> TRUE]

(***************************************************************************)
(* services/tv-mode.ts: TvModeController                                   *)
(***************************************************************************)
MIN_INTERVAL == 30000
MAX_INTERVAL == 120000
DEFAULT_INTERVAL == 60000

\* JavaScript numbers: the integers, NaN and the two infinities.
Num(v) == [kind |-> "finite", v |-> v]
NaN == [kind |-> "nan", v |-> 0]
PosInfinity == [kind |-> "inf", v |-> 0]
NegInfinity == [kind |-> "-inf", v |-> 0]

isFinite(x) == x.kind = "finite"

\* Math.min and Math.max
mathMin(a, b) ==
    IF a.kind = "nan" \/ b.kind = "nan" THEN NaN
    ELSE IF a.kind = "-inf" \/ b.kind = "-inf" THEN NegInfinity
    ELSE IF a.kind = "inf" THEN b
    ELSE IF b.kind = "inf" THEN a
    ELSE IF a.v <= b.v THEN a ELSE b

mathMax(a, b) ==
    IF a.kind = "nan" \/ b.kind = "nan" THEN NaN
    ELSE IF a.kind = "inf" \/ b.kind = "inf" THEN PosInfinity
    ELSE IF a.kind = "-inf" THEN b
    ELSE IF b.kind = "-inf" THEN a
    ELSE IF a.v >= b.v THEN a ELSE b

\* Faulty variant of clampInterval: the lower limit is not applied.
clampIntervalNoMin(ms) == mathMin(Num(MAX_INTERVAL), ms)

\* clampInterval, lines 12-14
clampInterval(ms) == mathMax(Num(MIN_INTERVAL), mathMin(Num(MAX_INTERVAL), ms))

DecDigits == <<"0", "1", "2", "3", "4", "5", "6", "7", "8", "9">>
digitValue(c) == (CHOOSE d \in 1..10 : DecDigits[d] = c) - 1
isDecDigit(c) == \E d \in 1..10 : DecDigits[d] = c

RECURSIVE digitsOf(_)
digitsOf(n) == IF n < 10 THEN <<DecDigits[n + 1]>> ELSE Append(digitsOf(n \div 10), DecDigits[(n % 10) + 1])

\* String(x), line 105
numberToString(x) ==
    IF x.kind = "nan" THEN <<"N", "a", "N">>
    ELSE IF x.kind = "inf" THEN <<"I", "n", "f", "i", "n", "i", "t", "y">>
    ELSE IF x.kind = "-inf" THEN <<"-", "I", "n", "f", "i", "n", "i", "t", "y">>
    ELSE IF x.v < 0 THEN <<"-">> \o digitsOf(0 - x.v)
    ELSE digitsOf(x.v)

RECURSIVE skipWhite(_)
skipWhite(str) == IF Len(str) > 0 /\ Head(str) = " " THEN skipWhite(Tail(str)) ELSE str

RECURSIVE leadingDigits(_, _, _)
leadingDigits(str, acc, seen) ==
    IF Len(str) > 0 /\ isDecDigit(Head(str))
    THEN leadingDigits(Tail(str), acc * 10 + digitValue(Head(str)), TRUE)
    ELSE [value |-> acc, seen |-> seen]

\* parseInt(str, 10), line 34: leading white space, an optional sign, then
\* the longest run of digits; NaN when there is none
parseInt(str) ==
    LET t == skipWhite(str)
        negative == Len(t) > 0 /\ Head(t) = "-"
        signed == Len(t) > 0 /\ Head(t) \in {"-", "+"}
        r == leadingDigits(IF signed THEN Tail(t) ELSE t, 0, FALSE)
    IN IF ~r.seen THEN NaN
       ELSE IF negative THEN Num(0 - r.value) ELSE Num(r.value)

NoItem == [present |-> FALSE, value |-> <<>>]
Item(str) == [present |-> TRUE, value |-> str]
NoOption == [present |-> FALSE, value |-> NaN]
Option(x) == [present |-> TRUE, value |-> x]

\* the constructor's choice of interval, lines 33-37
initialInterval(stored, option) ==
    LET parsed == IF stored.present /\ Len(stored.value) > 0 THEN parseInt(stored.value) ELSE NaN
    IN clampInterval(IF isFinite(parsed) THEN parsed
                     ELSE IF option.present THEN option.value
                     ELSE Num(DEFAULT_INTERVAL))

\* what localStorage may hold under 'tv-mode-interval' at construction
StoredItems ==
    { NoItem, Item(<<>>), Item(<<"a", "b", "c">>), Item(<<"0">>),
      Item(<<"4", "5", "0", "0", "0">>), Item(<<"4", "5", "0", "0", "0", "m", "s">>),
      Item(<<" ", "9", "0", "0", "0", "0">>), Item(<<"-", "7">>),
      Item(<<"9", "9", "9", "9", "9", "9">>) }

\* opts.intervalMs
IntervalOptions == { NoOption, Option(Num(1000)), Option(Num(90000)), Option(NaN) }

\* arguments of setIntervalMs
IntervalArgs ==
    { Num(0 - 5), Num(29999), Num(30000), Num(75000), Num(120000), Num(120001),
      NaN, PosInfinity }

TvInit ==
    /\ IdleExceptTv
    /\ \E stored \in StoredItems, option \in IntervalOptions :
        /\ tvStorage = stored
        /\ tvOption = option
        /\ intervalMs = initialInterval(stored, option)
        /\ tvLast = [op |-> "construct", arg |-> NaN, stored |-> stored]
        /\ tvFinite = (option.present => isFinite(option.value))
    /\ intervalId = [active |-> FALSE, delay |-> NaN]
    /\ tvMode = FALSE

\* startCycling, lines 128-131
startCycling(ms) == [active |-> TRUE, delay |-> ms]

\* stopCycling, lines 133-138
stopCycling == [active |-> FALSE, delay |-> NaN]

\* enter, lines 44-71
TvEnter ==
    /\ tvMode' = TRUE
    /\ intervalId' = startCycling(intervalMs)
    /\ UNCHANGED <<exceptTv, tvStorage, tvOption, intervalMs, tvLast, tvFinite>>

\* exit, lines 73-93 (also destroy, lines 121-124)
TvExit ==
    /\ tvMode' = FALSE
    /\ intervalId' = stopCycling
    /\ UNCHANGED <<exceptTv, tvStorage, tvOption, intervalMs, tvLast, tvFinite>>

\* setIntervalMs, lines 103-112
TvSetIntervalMs ==
    \E ms \in IntervalArgs :
        /\ intervalMs' = clampInterval(ms)
        /\ tvStorage' = Item(numberToString(clampInterval(ms)))
        /\ intervalId' = IF intervalId.active THEN startCycling(clampInterval(ms)) ELSE intervalId
        /\ tvLast' = [op |-> "set", arg |-> ms, stored |-> tvStorage]
        /\ tvFinite' = (tvFinite /\ isFinite(ms))
        /\ UNCHANGED <<exceptTv, tvOption, tvMode>>

\* The page is loaded again: a new controller is constructed, lines 24-38,
\* from what localStorage holds now.
TvConstruct ==
    /\ tvLast.op = "set"
    /\ intervalMs' = initialInterval(tvStorage, tvOption)
    /\ intervalId' = [active |-> FALSE, delay |-> NaN]
    /\ tvMode' = FALSE
    /\ tvLast' = [op |-> "construct", arg |-> NaN, stored |-> tvStorage]
    /\ UNCHANGED <<exceptTv, tvStorage, tvOption, tvFinite>>

TvNext ==
    \/ TvEnter
    \/ TvExit
    \/ TvSetIntervalMs
    \/ TvConstruct

SpecTv == TvInit /\ [][TvNext]_vars

(***************************************************************************)
(* Claims about TvModeController                                           *)
(***************************************************************************)
InRange(x) == x.kind = "finite" /\ x.v >= 30000 /\ x.v <= 120000

Clamped(x) == IF x.v < 30000 THEN Num(30000) ELSE IF x.v > 120000 THEN Num(120000) ELSE x

\* the decimal numerals of the values a clamped interval can take here
Numeral(x) ==
    IF x = Num(30000) THEN <<"3", "0", "0", "0", "0">>
    ELSE IF x = Num(75000) THEN <<"7", "5", "0", "0", "0">>
    ELSE IF x = Num(120000) THEN <<"1", "2", "0", "0", "0", "0">>
    ELSE <<>>

\* the number a stored item stands for, as the items of StoredItems are read
PersistedValue(stored) ==
    IF stored = Item(<<"0">>) THEN Num(0)
    ELSE IF stored = Item(<<"4", "5", "0", "0", "0">>) THEN Num(45000)
    ELSE IF stored = Item(<<"4", "5", "0", "0", "0", "m", "s">>) THEN Num(45000)
    ELSE IF stored = Item(<<" ", "9", "0", "0", "0", "0">>) THEN Num(90000)
    ELSE IF stored = Item(<<"-", "7">>) THEN Num(0 - 7)
    ELSE IF stored = Item(<<"9", "9", "9", "9", "9", "9">>) THEN Num(999999)
    ELSE IF stored = Item(<<"3", "0", "0", "0", "0">>) THEN Num(30000)
    ELSE IF stored = Item(<<"7", "5", "0", "0", "0">>) THEN Num(75000)
    ELSE IF stored = Item(<<"1", "2", "0", "0", "0", "0">>) THEN Num(120000)
    ELSE NaN

MsPerDay == 86400000

\* COUNTER_METRICS, lines 25-80
MetricIds == {"births", "trees", "vaccines", "graduates", "books", "renewable"}

\* the calendar date of a day number: getUTCFullYear, getUTCMonth
\* (0-based) and getUTCDate, line 92
civilFromDays(day) ==
    LET z == day + 719468
        era == z \div 146097
        doe == z - era * 146097
        yoe == (doe - (doe \div 1460) + (doe \div 36524) - (doe \div 146096)) \div 365
        doy == doe - (365 * yoe + (yoe \div 4) - (yoe \div 100))
        mp == (5 * doy + 2) \div 153
        d == doy - ((153 * mp + 2) \div 5) + 1
        m == IF mp < 10 THEN mp + 3 ELSE mp - 9
    IN [year |-> yoe + era * 400 + (IF m <= 2 THEN 1 ELSE 0), month |-> m - 1, date |-> d]

\* Date.UTC(year, month, date), line 92, as a day number
dateUTC(year, month, date) ==
    LET m == month + 1
        y == IF m <= 2 THEN year - 1 ELSE year
        era == y \div 400
        yoe == y - era * 400
        doy == ((153 * (IF m > 2 THEN m - 3 ELSE m + 9) + 2) \div 5) + date - 1
        doe == yoe * 365 + (yoe \div 4) - (yoe \div 100) + doy
    IN era * 146097 + doe - 719468

\* Faulty variant of midnightUTC: the day of the month is taken 0-based.
midnightUTCDayBefore(now) ==
    LET c == civilFromDays(now.day)
    IN [day |-> dateUTC(c.year, c.month, c.date - 1), ms |-> 0]

\* midnightUTC, lines 91-93
midnightUTC(now) ==
    LET c == civilFromDays(now.day)
    IN [day |-> dateUTC(c.year, c.month, c.date), ms |-> 0]

\* getCounterValue, lines 89-96; the product perSecondRate * elapsedSeconds
\* is kept as its two factors, the elapsed time in milliseconds
getCounterValue(metric, now) ==
    [perSecondRateOf |-> metric,
     elapsedMs |-> (now.day - midnightUTC(now).day) * MsPerDay + now.ms]

\* Days around month ends, year ends and leap days, 1970 to 2100.
ClockDays == {0, 58, 59, 364, 365, 789, 790, 11016, 11017, 19782, 19783, 20088, 20089, 47540, 47541}
ClockMs == {0, 1, 43200000, 86399999}
Instants == [day : ClockDays, ms : ClockMs]

Later(a, b) == a.day < b.day \/ (a.day = b.day /\ a.ms < b.ms)

CounterInit ==
    /\ IdleExceptCounter
    /\ clock \in Instants
    /\ reads = <<>>

\* time passes
ClockAdvance ==
    /\ \E t \in Instants :
        /\ Later(clock, t)
        /\ t.day <= clock.day + 1
        /\ clock' = t
    /\ reads' = <<>>
    /\ UNCHANGED exceptCounter

\* a caller reads a counter
ReadCounter ==
    /\ Len(reads) < MaxReads
    /\ \E metric \in MetricIds :
        reads' = Append(reads, [metric |-> metric, at |-> clock,
                                value |-> getCounterValue(metric, clock)])
    /\ UNCHANGED <<exceptCounter, clock>>

CounterNext ==
    \/ ClockAdvance
    \/ ReadCounter

SpecCounter == CounterInit /\ [][CounterNext]_vars

(***************************************************************************)
(* Claims about getCounterValue                                            *)
(***************************************************************************)
\* C15: every value read is the metric's rate times the time elapsed since
\* the most recent midnight UTC (so it is zero at midnight); reads of one
\* metric at the same instant give the same value however many reads came
\* before; and at any later instant of the same UTC day the value is not
\* smaller.
C15_AbsoluteTime ==
    /\ \A k \in 1..Len(reads) :
          /\ reads[k].value.perSecondRateOf = reads[k].metric
          /\ reads[k].value.elapsedMs = reads[k].at.ms
          /\ reads[k].at.ms = 0 => reads[k].value.elapsedMs = 0
    /\ \A k \in 1..Len(reads) : \A l \in 1..Len(reads) :
          (reads[k].metric = reads[l].metric /\ reads[k].at = reads[l].at)
              => reads[k].value = reads[l].value
    /\ \A k \in 1..Len(reads) : \A t \in Instants :
          (t.day = reads[k].at.day /\ Later(reads[k].at, t))
              => getCounterValue(reads[k].metric, t).elapsedMs >= reads[k].value.elapsedMs

\* C15 witness: on a leap day, one millisecond before the next midnight, a
\* counter was read for the third time.
C15_Witness ==
    /\ Len(reads) = 3
    /\ reads[3].at = [day |-> 19782, ms |-> 86399999]
    /\ reads[3].metric = reads[1].metric
    /\ reads[3].value.elapsedMs = 86399999

(***************************************************************************)
(* components/CountersPanel.ts: CountersPanel                              *)
(***************************************************************************)
\* animFrameId is 0 for null; requestAnimationFrame hands out 1, 2, ...

\* Faulty variant of notTicking: startTicking does not look at animFrameId.
notTickingUnchecked(id) == TRUE

\* the guard of startTicking, line 90, negated
notTicking(id) == id = 0

\* CountersPanel's constructor, lines 22-26: the grid is built with the
\* values of the moment and startTicking requests the first frame.
TickInit ==
    /\ IdleExceptTick
    /\ animFrameId = 1
    /\ rafPending = {1}
    /\ rafRequests = 1
    /\ valueElements = "built"
    /\ frameNo = 0
    /\ shownFrame = 0
    /\ lastCall = [op |-> "constructor", wasTicking |-> FALSE, requested |-> 1]

\* startTicking, lines 89-92
StartTicking ==
    /\ rafRequests < MaxRequests
    /\ IF notTicking(animFrameId)
       THEN /\ animFrameId' = rafRequests + 1
            /\ rafPending' = rafPending \cup {rafRequests + 1}
            /\ rafRequests' = rafRequests + 1
       ELSE UNCHANGED <<animFrameId, rafPending, rafRequests>>
    /\ lastCall' = [op |-> "startTicking", wasTicking |-> animFrameId # 0,
                    requested |-> rafRequests' - rafRequests]
    /\ UNCHANGED <<exceptTick, valueElements, frameNo, shownFrame>>

\* The browser renders a frame: every pending callback runs once. Each is
\* tick, lines 99-108, which rewrites the values that are still referenced
\* and requests the next frame.
AnimationFrame ==
    /\ frameNo < MaxFrames
    /\ rafRequests + Cardinality(rafPending) <= MaxRequests
    /\ frameNo' = frameNo + 1
    /\ IF rafPending = {}
       THEN UNCHANGED <<animFrameId, rafPending, rafRequests, shownFrame, lastCall>>
       ELSE /\ rafPending' = (rafRequests + 1)..(rafRequests + Cardinality(rafPending))
            /\ rafRequests' = rafRequests + Cardinality(rafPending)
            /\ animFrameId' = rafRequests + Cardinality(rafPending)
            /\ shownFrame' = IF valueElements = "built" THEN frameNo + 1 ELSE shownFrame
            /\ lastCall' = [op |-> "tick", wasTicking |-> TRUE,
                            requested |-> Cardinality(rafPending)]
    /\ UNCHANGED <<exceptTick, valueElements>>

\* destroy, lines 113-120
TickDestroy ==
    /\ rafPending' = rafPending \ {animFrameId}
    /\ animFrameId' = 0
    /\ valueElements' = "cleared"
    /\ lastCall' = [op |-> "destroy", wasTicking |-> animFrameId # 0, requested |-> 0]
    /\ UNCHANGED <<exceptTick, rafRequests, frameNo, shownFrame>>

TickNext ==
    \/ StartTicking
    \/ AnimationFrame
    \/ TickDestroy

SpecTick == TickInit /\ [][TickNext]_vars

(***************************************************************************)
(* Claims about CountersPanel                                              *)
(***************************************************************************)
\* C16: at most one requestAnimationFrame callback is pending; a
\* startTicking call made while ticking requests nothing; and right after
\* destroy no callback is pending and animFrameId is null.
C16_SingleLoop ==
    /\ Cardinality(rafPending) <= 1
    /\ (lastCall.op = "startTicking" /\ lastCall.wasTicking) => lastCall.requested = 0
    /\ lastCall.op = "destroy" => (rafPending = {} /\ animFrameId = 0)

\* C16 witness: after some frames, startTicking was called while the loop
\* was running, and exactly one callback is pending.
C16_Witness ==
    /\ frameNo >= 2
    /\ lastCall.op = "startTicking"
    /\ lastCall.wasTicking
    /\ Cardinality(rafPending) = 1
    /\ animFrameId \in rafPending

(***************************************************************************)
(* RenewableEnergyPanel (in e2e/theme-toggle.spec.ts)                      *)
(***************************************************************************)
\* The children of the panel content are records with a class name and
\* what they were built from.

\* RenewableEnergyData as far as setData looks at it
RenewableData ==
    [globalPercentage : {0, 30, 100}, regions : {0, 1, 2}, historicalData : {2, 3}]

\* The series handed to setCapacityData: missing, or a list of series,
\* each a source with the years of its data.
NoSeries == [present |-> FALSE, list |-> <<>>]
SeriesList(list) == [present |-> TRUE, list |-> list]
CapacityInputs ==
    { NoSeries,
      SeriesList(<<>>),
      SeriesList(<<[source |-> "SUN", years |-> {}]>>),
      SeriesList(<<[source |-> "SUN", years |-> {2020, 2021}]>>),
      SeriesList(<<[source |-> "WND", years |-> {2021}]>>),
      SeriesList(<<[source |-> "COL", years |-> {2019}], [source |-> "COL", years |-> {2020}]>>),
      SeriesList(<<[source |-> "SUN", years |-> {2020, 2021}],
                   [source |-> "WND", years |-> {2021}],
                   [source |-> "COL", years |-> {2019}]>>) }

\* setData's rendering, lines 597-652
renderData(data) ==
    IF data.globalPercentage = 0 /\ data.regions = 0
    THEN <<[cls |-> "renewable-empty", built |-> <<>>]>>
    ELSE <<[cls |-> "renewable-container",
            built |-> <<"renewable-gauge-section", data.globalPercentage>>
                      \o (IF data.historicalData > 2
                          THEN <<"renewable-sparkline-section", data.historicalData>>
                          ELSE <<>>)
                      \o (IF data.regions > 0
                          THEN <<"renewable-regions", data.regions>>
                          ELSE <<>>)]>>

isCapacitySection(el) == el.cls = "capacity-section"

\* Faulty variant of removeCapacitySection: nothing is removed.
removeCapacitySectionNot(children) == children

\* content.querySelector('.capacity-section')?.remove(), line 884: the first
\* such child goes
RECURSIVE removeCapacitySection(_)
removeCapacitySection(children) ==
    IF children = <<>> THEN <<>>
    ELSE IF isCapacitySection(Head(children)) THEN Tail(children)
    ELSE <<Head(children)>> \o removeCapacitySection(Tail(children))

\* the years renderCapacityChart collects, lines 921-925
allYears(list) == UNION { list[i].years : i \in 1..Len(list) }

\* the section of lines 888-898: a header, and the chart unless no series
\* has data
capacitySection(series) ==
    [cls |-> "capacity-section",
     built |-> <<"capacity-header", series.list, allYears(series.list) # {}>>]

RenewInit ==
    /\ IdleExceptRenew
    /\ renewContent = <<[cls |-> "panel-loading", built |-> <<>>]>>
    /\ renewData = <<[cls |-> "panel-loading", built |-> <<>>]>>
    /\ renewLast = [op |-> "constructor", series |-> NoSeries]

\* setData, lines 597-652
SetData ==
    \E data \in RenewableData :
        /\ renewContent' = renderData(data)
        /\ renewData' = renderData(data)
        /\ renewLast' = [op |-> "setData", series |-> NoSeries]
        /\ UNCHANGED exceptRenew

\* setCapacityData, lines 882-899
SetCapacityData ==
    \E series \in CapacityInputs :
        /\ renewContent' =
              IF ~series.present \/ Len(series.list) = 0
              THEN removeCapacitySection(renewContent)
              ELSE Append(removeCapacitySection(renewContent), capacitySection(series))
        /\ renewLast' = [op |-> "setCapacityData", series |-> series]
        /\ UNCHANGED <<exceptRenew, renewData>>

RenewNext ==
    \/ SetData
    \/ SetCapacityData

SpecRenew == RenewInit /\ [][RenewNext]_vars

(***************************************************************************)
(* Claims about RenewableEnergyPanel                                       *)
(***************************************************************************)
CapacitySections == SelectSeq(renewContent, LAMBDA el : el.cls = "capacity-section")
OtherContent == SelectSeq(renewContent, LAMBDA el : el.cls # "capacity-section")

\* C17: the content never holds more than one capacity section; after a
\* setCapacityData call it holds one built from that call's series, or
\* none if the series is missing or empty; and what setData rendered is
\* still there, unchanged.
C17_CapacityIdempotent ==
    /\ Len(CapacitySections) <= 1
    /\ renewLast.op = "setCapacityData" =>
          IF renewLast.series.present /\ renewLast.series.list # <<>>
          THEN /\ Len(CapacitySections) = 1
               /\ CapacitySections[1].built[2] = renewLast.series.list
          ELSE Len(CapacitySections) = 0
    /\ OtherContent = renewData

\* C17 witness: setCapacityData was called on a panel that already showed
\* a capacity section of another series, below a rendered gauge.
C17_Witness ==
    /\ renewLast.op = "setCapacityData"
    /\ Len(renewLast.series.list) = 3
    /\ Len(renewContent) = 2
    /\ renewContent[1].cls = "renewable-container"
    /\ renewContent[2].built[2] = renewLast.series.list

====
